---- MODULE Spec2Model ----
(***************************************************************************)
(* State/compile/mix/history engine of CyberSynth, as implemented by the   *)
(* two front-end classes of src/assets/js/cybermidi.js: CyberMidi (lines    *)
(* 5-849) and CyberStrudel (lines 856-2672).                                *)
(*                                                                          *)
(* A handler of the program is a sequence of method calls on `this`; it is  *)
(* modelled as an operator from the state record before the handler to the  *)
(* state record after it.  The variables are the fields of the record.      *)
(*                                                                          *)
(* Representation:                                                          *)
(*  - a JavaScript object whose key order the code reads (Object.keys) is   *)
(*    an ordered map: a sequence of [k, v] records in insertion order;      *)
(*  - a step cell is a BOOLEAN; the falsy non-booleans a sparse array can   *)
(*    hold (hole, undefined, null) read as FALSE, which is how every read   *)
(*    of a cell in the code (!cell, cell ? a : b) treats them;              *)
(*  - historyIndex is 0-based as in the code, sequences are 1-based;        *)
(*  - room and delay are kept in tenths (0.5 is 5);                         *)
(*  - the page is assumed to provide every element the code looks up by a   *)
(*    fixed id, and the containers of the tracks the constructor creates.   *)
(***************************************************************************)
EXTENDS Integers, Sequences, FiniteSets, TLC

VARIABLES variant, sequencerState, trackStates, mixedPatterns, synthParams,
          code, savedPatterns, history, historyIndex, dom, stored,
          notification, isPlaying, currentPattern, pendingEvals, nextEval,
          editTimer, pendingReads, ops

vars == <<variant, sequencerState, trackStates, mixedPatterns, synthParams,
          code, savedPatterns, history, historyIndex, dom, stored,
          notification, isPlaying, currentPattern, pendingEvals, nextEval,
          editTimer, pendingReads, ops>>

(***************************************************************************)
(* Bounds of the model.                                                     *)
(***************************************************************************)
\* number of user events in a behaviour
MaxOps == 3
\* number of tracks addTrack may reach (CyberStrudel, CyberMidi)
MaxTracks == 5
MaxMidiTracks == 2
\* number of user events of a run on the history stack
MaxHistoryOps == 5
\* number of user events of a run on undo, redo and reload
MaxRestoreOps == 4
\* number of user events of a run on the track list
MaxTrackOps == 5
\* number of user events of a run on the pattern library
MaxLibraryOps == 4
\* number of user events of a run on the import of a pattern file
MaxImportOps == 3
\* number of user events of a run that ends in a load of the page
MaxLoadOps == 3
\* number of user events of a run that ends in two playback requests
MaxPlaybackOps == 4
\* number of user events of a run on evaluation and playback
MaxEvaluateOps == 4
\* number of user events of a run that compiles tracks
MaxCompileOps == 3
\* number of user events of a run that exports the library
MaxExportOps == 4
\* number of user events of a run with an undo during the debounce of an edit
MaxDebounceOps == 4
\* number of step clicks before the events of SpecUndoRedo
MaxPrefix == 4
\* number of evaluate() calls awaited at one time, and of files being read
MaxPending == 2

\* this.maxHistory
maxHistory == 50

(***************************************************************************)
(* Ordered maps (JavaScript objects and Maps with string keys).             *)
(***************************************************************************)
Keys(m) == [i \in 1..Len(m) |-> m[i].k]

KeySet(m) == {m[i].k : i \in 1..Len(m)}

Has(m, key) == \E i \in 1..Len(m) : m[i].k = key

Get(m, key) == m[CHOOSE i \in 1..Len(m) : m[i].k = key].v

\* m[key] = v : an existing key keeps its position, a new key goes last
Put(m, key, v) ==
    IF Has(m, key)
    THEN [i \in 1..Len(m) |-> IF m[i].k = key THEN [k |-> key, v |-> v] ELSE m[i]]
    ELSE Append(m, [k |-> key, v |-> v])

\* delete m[key]
Del(m, key) == SelectSeq(m, LAMBDA e : e.k # key)

\* !!m[key] for a map of booleans: an absent key is undefined, hence falsy
Truthy(m, key) == Has(m, key) /\ Get(m, key)

\* Object.values(m).some(v => v)
SomeTrue(m) == \E i \in 1..Len(m) : m[i].v

SeqToSet(q) == {q[i] : i \in 1..Len(q)}

\* Array(n).fill(false)
Blank(n) == [i \in 1..n |-> FALSE]

\* arr.slice(0, n)
Slice(arr, n) == SubSeq(arr, 1, IF n < Len(arr) THEN n ELSE Len(arr))

\* arr[index] = v, index 0-based: writing past the end lengthens the array
SetAt(arr, index, v) ==
    IF index < Len(arr)
    THEN [arr EXCEPT ![index + 1] = v]
    ELSE [i \in 1..(index + 1) |->
             IF i <= Len(arr) THEN arr[i] ELSE IF i = index + 1 THEN v ELSE FALSE]

\* arr[index], index 0-based: reading past the end gives undefined (falsy)
At(arr, index) == index < Len(arr) /\ arr[index + 1]

\* get presets(): the built-in fragments, in key order
presetKeys == <<"a", "b", "c", "d", "e", "f", "g", "h", "i", "j", "k", "l">>

presets(key) ==
    IF key = "a" THEN "s('bd,bass(4,8)').jux(rev).gain(0.8)" ELSE
    IF key = "b" THEN "s('bd,bass(4,8)').jux(rev).gain(0.8).lpf(800).lpq(1).room(0.5).delay(0.3)" ELSE
    IF key = "c" THEN "s('bd*2,hh(3,4),bass:[1 4](5,8,1)').jux(rev).attack(0.015).stack(s('~ sd')).gain(0.8)" ELSE
    IF key = "d" THEN "note(\"[c eb g <f bb>](3,8,<0 1>)\".sub(12))\n.s(\"<sawtooth>/64\")\n.lpf(sine.range(300,2000).slow(16))\n.lpa(0.005)\n.lpd(perlin.range(.02,.2))\n.lps(perlin.range(0,.5).slow(3))\n.lpq(sine.range(2,10).slow(32))\n.release(.5)\n.lpenv(perlin.range(1,8).slow(2))\n.ftype('24db')\n.room(1)\n.juxBy(.5,rev)\n.sometimes(add(note(12)))\n.stack(s(\"bd*2\").bank('RolandTR909'))\n.gain(.5).fast(2)" ELSE
    IF key = "e" THEN "s(\"hh*8\").gain(\".4!2 1 .4!2 1 .4 1\").fast(2).layer(\n  x => x.degrade().pan(0),\n  x => x.undegrade().pan(1))" ELSE
    IF key = "f" THEN "n(\"<-4,0 5 2 1>*<2!3 4>\")\n.scale(\"<C F>/8:pentatonic\")\n.s(\"sine\")\n.penv(\"<.5 0 7 -2>*2\").vib(\"4:.1\")\n.phaser(2).delay(.25).room(.3)\n.size(4).fast(1.5)\n.fm(3)\n.fmdecay(.2)\n.fmsustain(1)\n.fmenv(\"<exp lin>\")\n.fm(\"<1 2 1.5 1.61>\")\n.lpf(tri.range(100, 5000).slow(2))\n.lpf(tri.range(100, 5000).slow(2))\n.vowel(\"<a e i <o u>>\")\n.vib(\"<.5 1 2 4 8 16>:8\")\n.room(1).roomsize(5).orbit(2)" ELSE
    IF key = "g" THEN "note(\"D#1!8\").s(\"sine\").penv(34).pdecay(.1).decay(.23).distort(\"8:.4\")" ELSE
    IF key = "h" THEN "sound(\"bd*2,<white pink brown>*8\")\n.decay(.04).sustain(0).scope()" ELSE
    IF key = "i" THEN "note(\"c4 d4 e4 f4 g4 a4 b4 c5\").sound('sine').gain(0.8)" ELSE
    IF key = "j" THEN "stack( n(\"<-4,0 5 2 1>*<2!3 4>\")\n.scale(\"<C F>/8:pentatonic\")\n.s(\"sine\")\n.penv(\"<.5 0 7 -2>*2\").vib(\"4:.1\")\n.size(4).fast(1.5)\n.room(1).roomsize(5).orbit(2))" ELSE
    IF key = "k" THEN "stack(s('bd*2,jvbass*4(2,8),jvbass(8,8,1)').jux(rev), note('c1 eb1 g1 bb1').sound('sawtooth').lpf(sine.range(500,1000).slow(8)).lpq(5)).fm(sine.range(3,8).slow(100)).gain(0.8)" ELSE
    "n(\"0 1 4 2 0 6 3 2\").sound(\"jazz\")"

(***************************************************************************)
(* The state record and the history (both classes share this code).         *)
(***************************************************************************)
Cur ==
    [variant |-> variant, sequencerState |-> sequencerState,
     trackStates |-> trackStates, mixedPatterns |-> mixedPatterns,
     synthParams |-> synthParams, code |-> code, savedPatterns |-> savedPatterns,
     history |-> history, historyIndex |-> historyIndex, dom |-> dom,
     stored |-> stored, notification |-> notification, isPlaying |-> isPlaying,
     currentPattern |-> currentPattern, pendingEvals |-> pendingEvals,
     nextEval |-> nextEval, editTimer |-> editTimer,
     pendingReads |-> pendingReads, threw |-> FALSE]

\* getTracks(): Object.keys(this.sequencerState)
getTracks(s) == Keys(s.sequencerState)

\* the object saveToHistory serialises; JSON.parse(JSON.stringify(x)) of these
\* plain values (strings, numbers, booleans, arrays, objects) yields an equal,
\* unshared value
Snapshot(s) ==
    [sequencerState |-> s.sequencerState, trackStates |-> s.trackStates,
     code |-> s.code, mixedPatterns |-> s.mixedPatterns,
     synthParams |-> s.synthParams]

\* the five parts of the editable state, for comparison with a history entry
Editable(s) == Snapshot(s)

\* saveToHistory without the splice: the entries after the cursor stay
saveToHistory_keepsRedoBranch(s) ==
    LET state  == Snapshot(s)
        pushed == Append(s.history, state)
        capped == IF Len(pushed) > maxHistory THEN Tail(pushed) ELSE pushed
    IN  [s EXCEPT !.history = capped, !.historyIndex = Len(capped) - 1]

\* saveToHistory with pop() in the place of shift(): the entry just pushed is
\* the one dropped at the bound
saveToHistory_evictsNewest(s) ==
    LET state  == Snapshot(s)
        spliced == IF s.historyIndex < Len(s.history) - 1
                   THEN SubSeq(s.history, 1, s.historyIndex + 1) ELSE s.history
        pushed == Append(spliced, state)
        capped == IF Len(pushed) > maxHistory
                  THEN SubSeq(pushed, 1, Len(pushed) - 1) ELSE pushed
    IN  [s EXCEPT !.history = capped, !.historyIndex = Len(capped) - 1]

saveToHistory(s) ==
    LET state  == Snapshot(s)
        spliced == IF s.historyIndex < Len(s.history) - 1
                   THEN SubSeq(s.history, 1, s.historyIndex + 1)
                   ELSE s.history
        pushed == Append(spliced, state)
        capped == IF Len(pushed) > maxHistory THEN Tail(pushed) ELSE pushed
    IN  [s EXCEPT !.history = capped, !.historyIndex = Len(capped) - 1]

\* the record written to localStorage; savedPatterns is spread to a list of
\* [name, record] pairs, which is the representation of the Map here
saveToLocalStorage(s) ==
    [s EXCEPT !.stored =
        <<[sequencerState |-> s.sequencerState, trackStates |-> s.trackStates,
           mixedPatterns |-> s.mixedPatterns, savedPatterns |-> s.savedPatterns,
           synthParams |-> s.synthParams, code |-> s.code]>>]

\* updateSequencerTrack for every track, on fresh containers with listeners
recreateSequencer(s) ==
    [s EXCEPT !.dom =
        [t \in KeySet(s.sequencerState) |->
            [buttons |-> Get(s.trackStates, t).steps, wired |-> TRUE]]]

\* updateSequencerTrack(track): re-renders the step buttons of one track
updateSequencerTrack(s, track) ==
    IF track \in DOMAIN s.dom
    THEN [s EXCEPT !.dom[track].buttons = Get(s.trackStates, track).steps]
    ELSE s

\* CyberStrudel.restoreState(state): the sequencer is rebuilt only when the
\* tracks of the restored state and the track containers of the page differ
\* restoreState without the assignment to the editor: the text stays
restoreState_keepsEditorText(s, state) ==
    LET s1 == [s EXCEPT
                 !.sequencerState = state.sequencerState,
                 !.trackStates = state.trackStates,
                 !.mixedPatterns = state.mixedPatterns,
                 !.synthParams = state.synthParams]
        s2 == IF DOMAIN s1.dom # KeySet(s1.sequencerState)
              THEN recreateSequencer(s1)
              ELSE s1
    IN  saveToLocalStorage(s2)

restoreState(s, state) ==
    LET s1 == [s EXCEPT
                 !.sequencerState = state.sequencerState,
                 !.trackStates = state.trackStates,
                 !.mixedPatterns = state.mixedPatterns,
                 !.synthParams = state.synthParams,
                 !.code = state.code]
        s2 == IF DOMAIN s1.dom # KeySet(s1.sequencerState)
              THEN recreateSequencer(s1)
              ELSE s1
    IN  saveToLocalStorage(s2)

(***************************************************************************)
(* Notifications, playback and persistence.                                 *)
(***************************************************************************)
\* showNotification(message, type): the text of the notification element
showNotification(s, message) == [s EXCEPT !.notification = message]

\* undo with the guard historyIndex < 0: at index 0 the cursor is decremented
\* and restoreState(undefined) throws
undo_guardBelowZero(s) ==
    IF s.historyIndex < 0
    THEN showNotification(s, "Nothing to undo")
    ELSE IF s.historyIndex = 0
    THEN [s EXCEPT !.historyIndex = -1]
    ELSE showNotification(
             restoreState([s EXCEPT !.historyIndex = s.historyIndex - 1],
                          s.history[s.historyIndex]),
             "Undo successful")

\* undo that also cuts the entries after the new cursor off the stack
undo_truncatesHistory(s) ==
    IF s.historyIndex <= 0
    THEN showNotification(s, "Nothing to undo")
    ELSE showNotification(
             restoreState([s EXCEPT !.historyIndex = s.historyIndex - 1,
                                    !.history = SubSeq(s.history, 1, s.historyIndex)],
                          s.history[s.historyIndex]),
             "Undo successful")

undo(s) ==
    IF s.historyIndex <= 0
    THEN showNotification(s, "Nothing to undo")
    ELSE showNotification(
             restoreState([s EXCEPT !.historyIndex = s.historyIndex - 1],
                          s.history[s.historyIndex]),
             "Undo successful")

\* redo with the guard historyIndex > length - 1: at the last index the cursor
\* is incremented and restoreState(undefined) throws
redo_guardPastEnd(s) ==
    IF s.historyIndex > Len(s.history) - 1
    THEN showNotification(s, "Nothing to redo")
    ELSE IF s.historyIndex = Len(s.history) - 1
    THEN [s EXCEPT !.historyIndex = s.historyIndex + 1]
    ELSE showNotification(
             restoreState([s EXCEPT !.historyIndex = s.historyIndex + 1],
                          s.history[s.historyIndex + 2]),
             "Redo successful")

redo(s) ==
    IF s.historyIndex >= Len(s.history) - 1
    THEN showNotification(s, "Nothing to redo")
    ELSE showNotification(
             restoreState([s EXCEPT !.historyIndex = s.historyIndex + 1],
                          s.history[s.historyIndex + 2]),
             "Redo successful")

\* toUpperCase() of the track ids and preset keys of the model
toUpperCase(track) ==
    IF track = "bd" THEN "BD" ELSE
    IF track = "sd" THEN "SD" ELSE
    IF track = "hh" THEN "HH" ELSE
    IF track = "cp" THEN "CP" ELSE
    IF track = "track4" THEN "TRACK4" ELSE
    IF track = "track5" THEN "TRACK5" ELSE
    IF track = "track6" THEN "TRACK6" ELSE
    IF track = "a" THEN "A" ELSE
    IF track = "c" THEN "C" ELSE
    IF track = "e" THEN "E" ELSE
    IF track = "l" THEN "L" ELSE track

\* code.trim() === '' for the texts of the model: generated text and preset
\* text never begin or end with white space, typed text is drawn from
\* TypedTexts
IsBlank(text) == text \in {"", " ", "\n"}

\* CyberStrudel.stop(): strudelReady holds once init has run
stop(s) ==
    saveToLocalStorage(
        showNotification([s EXCEPT !.currentPattern = 0, !.isPlaying = FALSE],
                         "Playback stopped"))

\* CyberStrudel.evaluateCode() up to its await: the call of evaluate(code) is
\* left pending, EvalResolve and EvalReject are its two continuations
evaluateCode(s) ==
    IF IsBlank(s.code)
    THEN showNotification(s, "No code to evaluate")
    ELSE LET s1 == IF s.currentPattern # 0 THEN stop(s) ELSE s
         IN  [s1 EXCEPT !.pendingEvals = @ \cup {s1.nextEval},
                        !.nextEval = @ + 1]

(***************************************************************************)
(* CyberStrudel: compiling and mixing.                                      *)
(***************************************************************************)
RECURSIVE JoinMarks(_)
\* steps.map(active => active ? 'x' : '~').join(' ')
JoinMarks(steps) ==
    IF Len(steps) = 0 THEN ""
    ELSE IF Len(steps) = 1 THEN (IF steps[1] THEN "x" ELSE "~")
    ELSE (IF steps[1] THEN "x" ELSE "~") \o " " \o JoinMarks(Tail(steps))

\* steps.includes('x')
HasActive(steps) == \E i \in 1..Len(steps) : steps[i]

tonalSounds == {"sawtooth", "sine", "triangle"}

\* the fragment of one track (updateMixedCode, generateTrackCode,
\* generateSequencerCode build it with the same two templates)
\* the track fragment with the sample named once, not stepCount times
TrackFragment_sampleOnce(sound, stepCount, steps) ==
    IF sound \in tonalSounds
    THEN "note('c3').sound('" \o sound \o "').struct(\"" \o JoinMarks(steps)
         \o "\").gain(0.8)"
    ELSE "s(\"" \o sound \o "\").struct(\"" \o JoinMarks(steps) \o "\").gain(0.8)"

TrackFragment(sound, stepCount, steps) ==
    IF sound \in tonalSounds
    THEN "note('c3').sound('" \o sound \o "').struct(\"" \o JoinMarks(steps)
         \o "\").gain(0.8)"
    ELSE "s(\"" \o sound \o "*" \o ToString(stepCount) \o "\").struct(\""
         \o JoinMarks(steps) \o "\").gain(0.8)"

\* trackStates[track].muted || (some track is solo && !trackStates[track].solo)
Inaudible(s, track) ==
    \/ Get(s.trackStates, track).muted
    \/ /\ \E i \in 1..Len(s.trackStates) : s.trackStates[i].v.solo
       /\ ~Get(s.trackStates, track).solo

RECURSIVE JoinComma(_)
\* patterns.join(', ')
JoinComma(patterns) ==
    IF Len(patterns) = 0 THEN ""
    ELSE IF Len(patterns) = 1 THEN patterns[1]
    ELSE patterns[1] \o ", " \o JoinComma(Tail(patterns))

RECURSIVE Flatten(_)
\* the fragments pushed by a forEach, parts[i] being <<>> or <<fragment>>
Flatten(parts) ==
    IF parts = <<>> THEN <<>> ELSE Head(parts) \o Flatten(Tail(parts))

\* updateMixedCode with the fragment of a saved pattern compiled again from
\* the grid and config of the first track in the pattern's snapshot
MixFragments_recompilesSaved(s) ==
    LET trackFrag(t) ==
            IF Truthy(s.mixedPatterns.tracks, t) /\ ~Inaudible(s, t)
            THEN LET cfg == Get(s.trackStates, t)
                     steps == Slice(Get(s.sequencerState, t), cfg.steps)
                 IN  IF HasActive(steps)
                     THEN <<TrackFragment(cfg.sound, cfg.steps, steps)>>
                     ELSE <<>>
            ELSE <<>>
        presetFrag(key) ==
            IF Get(s.mixedPatterns.presets, key) THEN <<presets(key)>> ELSE <<>>
        savedFrag(name) ==
            IF Get(s.mixedPatterns.saved, name)
               /\ Has(s.savedPatterns, name)
               /\ Get(s.savedPatterns, name).code # ""
            THEN LET pattern == Get(s.savedPatterns, name)
                     cfg == pattern.trackStates[1].v
                 IN  <<TrackFragment(cfg.sound, cfg.steps,
                                     Slice(pattern.sequencerState[1].v, cfg.steps))>>
            ELSE <<>>
        tracks == getTracks(s)
        presetsOn == Keys(s.mixedPatterns.presets)
        savedOn == Keys(s.mixedPatterns.saved)
    IN  Flatten([i \in 1..Len(tracks) |-> trackFrag(tracks[i])])
        \o Flatten([i \in 1..Len(presetsOn) |-> presetFrag(presetsOn[i])])
        \o Flatten([i \in 1..Len(savedOn) |-> savedFrag(savedOn[i])])

\* the fragments updateMixedCode collects: tracks, then presets, then saved
MixFragments(s) ==
    LET trackFrag(t) ==
            IF Truthy(s.mixedPatterns.tracks, t) /\ ~Inaudible(s, t)
            THEN LET cfg == Get(s.trackStates, t)
                     steps == Slice(Get(s.sequencerState, t), cfg.steps)
                 IN  IF HasActive(steps)
                     THEN <<TrackFragment(cfg.sound, cfg.steps, steps)>>
                     ELSE <<>>
            ELSE <<>>
        presetFrag(key) ==
            IF Get(s.mixedPatterns.presets, key) THEN <<presets(key)>> ELSE <<>>
        savedFrag(name) ==
            IF Get(s.mixedPatterns.saved, name)
               /\ Has(s.savedPatterns, name)
               /\ Get(s.savedPatterns, name).code # ""
            THEN <<Get(s.savedPatterns, name).code>>
            ELSE <<>>
        tracks == getTracks(s)
        presetsOn == Keys(s.mixedPatterns.presets)
        savedOn == Keys(s.mixedPatterns.saved)
    IN  Flatten([i \in 1..Len(tracks) |-> trackFrag(tracks[i])])
        \o Flatten([i \in 1..Len(presetsOn) |-> presetFrag(presetsOn[i])])
        \o Flatten([i \in 1..Len(savedOn) |-> savedFrag(savedOn[i])])

\* setCps(${bpm}/60/4)\n
CpsPrefix(s) == "setCps(" \o ToString(s.synthParams.bpm) \o "/60/4)\n"

updateMixedCode(s) ==
    LET patterns == MixFragments(s)
        combined == IF Len(patterns) = 1 THEN patterns[1]
                    ELSE IF Len(patterns) > 1
                         THEN "stack(" \o JoinComma(patterns) \o ")"
                         ELSE ""
        newCode == IF s.synthParams.bpmEnabled /\ Len(patterns) > 0
                   THEN CpsPrefix(s) \o combined
                   ELSE combined
        s1 == [s EXCEPT !.code = newCode]
    IN  IF newCode # "" /\ s1.isPlaying THEN evaluateCode(s1)
        ELSE IF newCode = ""
             THEN showNotification(stop(s1), "No active patterns to play")
             ELSE s1

(***************************************************************************)
(* CyberStrudel: the track operations.  A handler that reads a property of  *)
(* trackStates[track] or sequencerState[track] for a track the state no     *)
(* longer has throws a TypeError and ends there.                            *)
(***************************************************************************)
SetGrid(s, track, steps) ==
    [s EXCEPT !.sequencerState = Put(s.sequencerState, track, steps)]

SetCfg(s, track, cfg) ==
    [s EXCEPT !.trackStates = Put(s.trackStates, track, cfg)]

MixIfEnabled(s, track) ==
    IF Truthy(s.mixedPatterns.tracks, track) THEN updateMixedCode(s) ELSE s

toggleStep(s, track, index) ==
    LET s1 == saveToHistory(s)
    IN  IF ~Has(s1.sequencerState, track) THEN s1
        ELSE LET steps == Get(s1.sequencerState, track)
                 s2 == SetGrid(s1, track, SetAt(steps, index, ~At(steps, index)))
             IN  saveToLocalStorage(MixIfEnabled(s2, track))

toggleMute(s, track) ==
    IF ~Has(s.trackStates, track) THEN s
    ELSE LET cfg == Get(s.trackStates, track)
             s1 == SetCfg(s, track, [cfg EXCEPT !.muted = ~cfg.muted, !.solo = FALSE])
         IN  showNotification(
                 saveToLocalStorage(MixIfEnabled(s1, track)),
                 toUpperCase(track) \o " "
                     \o (IF Get(s1.trackStates, track).muted THEN "muted" ELSE "unmuted"))

toggleSolo(s, track) ==
    IF ~Has(s.trackStates, track) THEN s
    ELSE LET wasSolo == Get(s.trackStates, track).solo
             s1 == [s EXCEPT !.trackStates =
                      [i \in 1..Len(s.trackStates) |->
                          [k |-> s.trackStates[i].k,
                           v |-> IF s.trackStates[i].k = track
                                 THEN [s.trackStates[i].v EXCEPT !.solo = ~wasSolo]
                                 ELSE [s.trackStates[i].v EXCEPT !.solo = FALSE,
                                                                 !.muted = FALSE]]]]
             s2 == IF SomeTrue(s1.mixedPatterns.tracks) THEN updateMixedCode(s1) ELSE s1
         IN  showNotification(
                 saveToLocalStorage(s2),
                 toUpperCase(track) \o " " \o (IF ~wasSolo THEN "soloed" ELSE "unsoloed"))

mixTrack(s, track) ==
    IF ~Has(s.trackStates, track) THEN s
    ELSE IF Inaudible(s, track)
    THEN showNotification(s, toUpperCase(track) \o " is muted or not soloed")
    ELSE IF ~HasActive(Slice(Get(s.sequencerState, track), Get(s.trackStates, track).steps))
    THEN showNotification(s, "No active steps in " \o toUpperCase(track))
    ELSE LET s1 == [s EXCEPT !.mixedPatterns.tracks =
                       Put(@, track, ~Truthy(s.mixedPatterns.tracks, track))]
             s2 == saveToHistory(updateMixedCode(s1))
         IN  showNotification(s2,
                 "Track " \o toUpperCase(track) \o " "
                     \o (IF Get(s2.mixedPatterns.tracks, track) THEN "mixed" ELSE "removed"))

\* Math.random() > 0.7 for each cell: draw is the set of the cells (from 1)
\* for which it is
randomizeTrack(s, track, draw) ==
    IF ~Has(s.trackStates, track) THEN s
    ELSE LET stepCount == Get(s.trackStates, track).steps
             s1 == SetGrid(s, track, [i \in 1..stepCount |-> i \in draw])
         IN  showNotification(saveToLocalStorage(MixIfEnabled(s1, track)),
                              toUpperCase(track) \o " randomized")

changeStepCount(s, track, count) ==
    IF ~Has(s.trackStates, track) THEN s
    ELSE LET s1 == SetCfg(s, track, [Get(s.trackStates, track) EXCEPT !.steps = count])
             current == Slice(Get(s1.sequencerState, track), count)
             grid == [i \in 1..count |-> IF i <= Len(current) THEN current[i] ELSE FALSE]
             s2 == updateSequencerTrack(SetGrid(s1, track, grid), track)
         IN  showNotification(saveToLocalStorage(MixIfEnabled(s2, track)),
                 toUpperCase(track) \o " set to " \o ToString(count) \o " steps")

changeTrackSound(s, track, sound) ==
    IF ~Has(s.trackStates, track) THEN s
    ELSE LET s1 == SetCfg(s, track, [Get(s.trackStates, track) EXCEPT !.sound = sound])
         IN  showNotification(saveToLocalStorage(MixIfEnabled(s1, track)),
                 toUpperCase(track) \o " sound set to " \o sound)

defaultCfg(sound) == [muted |-> FALSE, solo |-> FALSE, steps |-> 8, sound |-> sound]

\* addTrack with the new track's config copied from the last track
addTrack_copiesLastConfig(s) ==
    LET s1 == saveToHistory(s)
        tracks == getTracks(s1)
        newKey == "track" \o ToString(Len(tracks))
        s2 == SetCfg(SetGrid(s1, newKey, Blank(8)), newKey,
                     Get(s1.trackStates, tracks[Len(tracks)]))
        s3 == [s2 EXCEPT !.dom =
                 [t \in DOMAIN s2.dom \cup {newKey} |->
                     IF t = newKey THEN [buttons |-> 8, wired |-> TRUE] ELSE s2.dom[t]]]
    IN  showNotification(saveToLocalStorage(s3),
                         "New track " \o toUpperCase(newKey) \o " added")

addTrack(s) ==
    LET s1 == saveToHistory(s)
        newKey == "track" \o ToString(Len(getTracks(s1)))
        s2 == SetCfg(SetGrid(s1, newKey, Blank(8)), newKey, defaultCfg("bd"))
        s3 == [s2 EXCEPT !.dom =
                 [t \in DOMAIN s2.dom \cup {newKey} |->
                     IF t = newKey THEN [buttons |-> 8, wired |-> TRUE] ELSE s2.dom[t]]]
    IN  showNotification(saveToLocalStorage(s3),
                         "New track " \o toUpperCase(newKey) \o " added")

removeTrack(s) ==
    LET tracks == getTracks(s)
    IN  IF Len(tracks) <= 4
        THEN showNotification(s, "Cannot remove original tracks")
        ELSE LET lastKey == tracks[Len(tracks)]
                 s1 == [s EXCEPT
                          !.dom = [t \in DOMAIN s.dom \ {lastKey} |-> s.dom[t]],
                          !.sequencerState = Del(@, lastKey),
                          !.trackStates = Del(@, lastKey),
                          !.mixedPatterns.tracks =
                              IF Truthy(@, lastKey) THEN Del(@, lastKey) ELSE @]
             IN  showNotification(saveToLocalStorage(saveToHistory(s1)),
                                  "Track " \o toUpperCase(lastKey) \o " removed")

RECURSIVE randomizeTracks(_, _, _)
\* this.getTracks().forEach(track => this.randomizeTrack(track))
randomizeTracks(s, tracks, draw) ==
    IF tracks = <<>> THEN s
    ELSE randomizeTracks(randomizeTrack(s, Head(tracks), draw), Tail(tracks), draw)

randomizeSequencer(s, draw) ==
    showNotification(randomizeTracks(s, getTracks(s), draw), "All tracks randomized")

RECURSIVE clearTracks(_, _)
\* the forEach of clearSequencer: the grid blanked, the track out of the mix
clearTracks(s, tracks) ==
    IF tracks = <<>> THEN s
    ELSE clearTracks(
             [SetGrid(s, Head(tracks), Blank(Get(s.trackStates, Head(tracks)).steps))
                 EXCEPT !.mixedPatterns.tracks = Put(@, Head(tracks), FALSE)],
             Tail(tracks))

clearSequencer(s) ==
    LET s1 == clearTracks(s, getTracks(s))
        s2 == [s1 EXCEPT !.mixedPatterns.saved = <<>>]
    IN  showNotification(saveToLocalStorage(updateMixedCode(s2)), "Sequencer cleared")

(***************************************************************************)
(* CyberStrudel: generated code, presets, the pattern bank, the editor.     *)
(***************************************************************************)
onlyMix(presetsMap, tracksMap, savedMap) ==
    [presets |-> presetsMap, tracks |-> tracksMap, saved |-> savedMap]

generateTrackCode(s, track) ==
    IF ~Has(s.trackStates, track) THEN s
    ELSE IF Inaudible(s, track)
    THEN showNotification(s, toUpperCase(track) \o " is muted or not soloed")
    ELSE LET cfg == Get(s.trackStates, track)
             steps == Slice(Get(s.sequencerState, track), cfg.steps)
             fragment == TrackFragment(cfg.sound, cfg.steps, steps)
         IN  IF ~HasActive(steps)
             THEN showNotification(s, "No active steps in " \o toUpperCase(track))
             ELSE LET s1 == [s EXCEPT
                               !.code = IF s.synthParams.bpmEnabled
                                        THEN CpsPrefix(s) \o fragment ELSE fragment,
                               !.mixedPatterns =
                                   onlyMix(<<>>, <<[k |-> track, v |-> TRUE]>>, <<>>)]
                  IN  showNotification(saveToHistory(evaluateCode(s1)),
                          "Code generated for " \o toUpperCase(track)
                              \o " with " \o cfg.sound)

generateSequencerCode(s) ==
    LET frag(t) ==
            IF Inaudible(s, t) THEN <<>>
            ELSE LET cfg == Get(s.trackStates, t)
                     steps == Slice(Get(s.sequencerState, t), cfg.steps)
                 IN  IF HasActive(steps)
                     THEN <<TrackFragment(cfg.sound, cfg.steps, steps)>>
                     ELSE <<>>
        tracks == getTracks(s)
        patterns == Flatten([i \in 1..Len(tracks) |-> frag(tracks[i])])
        stacked == "stack(" \o JoinComma(patterns) \o ")"
    IN  IF Len(patterns) = 0
        THEN showNotification(s, "No active steps to generate code")
        ELSE LET s1 == [s EXCEPT
                          !.code = IF s.synthParams.bpmEnabled
                                   THEN CpsPrefix(s) \o stacked ELSE stacked,
                          !.mixedPatterns =
                              onlyMix(<<>>,
                                      [i \in 1..Len(tracks) |-> [k |-> tracks[i], v |-> TRUE]],
                                      <<>>)]
             IN  showNotification(saveToHistory(evaluateCode(s1)),
                                  "Sequencer code generated")

\* parsePresetToSequencer: the tracks whose id occurs inside the first
\* s('...') or s("...") call of the preset text that contains it.  For these
\* presets the regular expressions of the code select: a, b, d, k: bd;
\* c: bd, hh (first call) and sd (the call s('~ sd')); e: hh; the others
\* none (sound("bd...") is no s( call).  No preset has a .struct(...), and
\* in every selected item the track id is the first piece of
\* split(/[*()]+/), so exactly step 0 is set.
presetTracks(key) ==
    IF key \in {"a", "b", "d", "k"} THEN {"bd"} ELSE
    IF key = "c" THEN {"bd", "sd", "hh"} ELSE
    IF key = "e" THEN {"hh"} ELSE {}

RECURSIVE parseTracks(_, _, _)
\* the forEach of parsePresetToSequencer over the tracks
parseTracks(s, tracks, key) ==
    IF tracks = <<>> THEN s
    ELSE parseTracks(
             IF Head(tracks) \in presetTracks(key)
             THEN SetGrid(s, Head(tracks),
                          SetAt(Blank(Get(s.trackStates, Head(tracks)).steps), 0, TRUE))
             ELSE s,
             Tail(tracks), key)

parsePresetToSequencer(s, key) == parseTracks(s, getTracks(s), key)

AllFalse(tracks) == [i \in 1..Len(tracks) |-> [k |-> tracks[i], v |-> FALSE]]

loadPreset(s, key) ==
    LET s1 == [s EXCEPT
                 !.code = presets(key),
                 !.mixedPatterns =
                     onlyMix(<<[k |-> key, v |-> TRUE]>>, AllFalse(getTracks(s)), <<>>)]
        s2 == parsePresetToSequencer(s1, key)
    IN  showNotification(saveToHistory(evaluateCode(s2)),
                         "Preset " \o toUpperCase(key) \o " loaded")

mixPreset(s, key) ==
    LET s1 == [s EXCEPT !.mixedPatterns.presets =
                  Put(@, key, ~Truthy(s.mixedPatterns.presets, key))]
    IN  showNotification(saveToHistory(updateMixedCode(s1)),
            "Preset " \o toUpperCase(key) \o " "
                \o (IF Get(s1.mixedPatterns.presets, key) THEN "mixed" ELSE "removed"))

\* savePattern(): name and code are the trimmed values of the two inputs
savePattern(s, name) ==
    IF name = "" THEN showNotification(s, "Pattern name is required")
    ELSE IF IsBlank(s.code) THEN showNotification(s, "No code to save")
    ELSE LET s1 == [s EXCEPT !.savedPatterns =
                      Put(@, name, [code |-> s.code,
                                    sequencerState |-> s.sequencerState,
                                    trackStates |-> s.trackStates,
                                    synthParams |-> s.synthParams])]
         IN  showNotification(saveToLocalStorage(s1),
                              "Pattern \"" \o name \o "\" saved")

mixSavedPattern(s, name) ==
    IF ~Has(s.savedPatterns, name) \/ Get(s.savedPatterns, name).code = ""
    THEN showNotification(s, "Saved pattern \"" \o name \o "\" is not valid")
    ELSE LET s1 == [s EXCEPT !.mixedPatterns.saved =
                      Put(@, name, ~Truthy(s.mixedPatterns.saved, name))]
         IN  showNotification(
                 saveToLocalStorage(saveToHistory(updateMixedCode(s1))),
                 "Saved pattern \"" \o name \o "\" "
                     \o (IF Get(s1.mixedPatterns.saved, name) THEN "mixed" ELSE "removed"))

originalTracks == {"bd", "sd", "hh", "cp"}

loadPattern(s, name) ==
    IF ~Has(s.savedPatterns, name)
    THEN showNotification(s, "Pattern \"" \o name \o "\" not found")
    ELSE LET pattern == Get(s.savedPatterns, name)
             s1 == [s EXCEPT
                      !.sequencerState = pattern.sequencerState,
                      !.trackStates = pattern.trackStates,
                      !.synthParams = pattern.synthParams,
                      !.code = pattern.code,
                      !.mixedPatterns =
                          onlyMix(<<>>, AllFalse(Keys(pattern.sequencerState)),
                                  <<[k |-> name, v |-> TRUE]>>)]
             s2 == IF KeySet(s1.sequencerState) \ originalTracks # {}
                   THEN recreateSequencer(s1) ELSE s1
         IN  showNotification(
                 saveToLocalStorage(saveToHistory(evaluateCode(s2))),
                 "Pattern \"" \o name \o "\" loaded")

\* deletePattern that switches the selection entry off but leaves it in place
deletePattern_keepsSelectionKey(s, name) ==
    IF ~Has(s.savedPatterns, name)
    THEN showNotification(s, "Pattern \"" \o name \o "\" not found")
    ELSE LET s1 == [s EXCEPT !.savedPatterns = Del(@, name),
                             !.mixedPatterns.saved = Put(@, name, FALSE)]
         IN  showNotification(
                 saveToLocalStorage(saveToHistory(updateMixedCode(s1))),
                 "Pattern \"" \o name \o "\" deleted")

deletePattern(s, name) ==
    IF ~Has(s.savedPatterns, name)
    THEN showNotification(s, "Pattern \"" \o name \o "\" not found")
    ELSE LET s1 == [s EXCEPT !.savedPatterns = Del(@, name),
                             !.mixedPatterns.saved = Del(@, name)]
         IN  showNotification(
                 saveToLocalStorage(saveToHistory(updateMixedCode(s1))),
                 "Pattern \"" \o name \o "\" deleted")

\* the click listener of clear-code-btn
clearCode(s) ==
    LET s1 == [saveToHistory(s) EXCEPT !.code = "",
                                      !.mixedPatterns = onlyMix(<<>>, <<>>, <<>>)]
    IN  showNotification(saveToLocalStorage(s1), "Code cleared")

\* the debounced callbacks of the four synth sliders and of the bpm slider
setSynthParam(s, param, value) ==
    saveToLocalStorage([s EXCEPT !.synthParams[param] = value])

setBpm(s, value) ==
    LET s1 == saveToLocalStorage([s EXCEPT !.synthParams.bpm = value])
    IN  IF s1.synthParams.bpmEnabled
        THEN showNotification(updateMixedCode(s1), "BPM set to " \o ToString(value))
        ELSE s1

\* the change listener of bpm-enable
setBpmEnabled(s, checked) ==
    LET s1 == updateMixedCode([saveToHistory(s) EXCEPT !.synthParams.bpmEnabled = checked])
        s2 == IF s1.isPlaying THEN evaluateCode(s1) ELSE s1
    IN  showNotification(saveToLocalStorage(s2),
                         "BPM " \o (IF checked THEN "enabled" ELSE "disabled"))

togglePlayback(s) == IF s.isPlaying THEN stop(s) ELSE evaluateCode(s)

(***************************************************************************)
(* CyberMidi.  Its saveToHistory and saveToLocalStorage are the code of      *)
(* CyberStrudel; the other methods differ and are prefixed Midi_.  threw     *)
(* marks a handler that an uncaught TypeError has ended.                     *)
(***************************************************************************)
Throw(s) == [s EXCEPT !.threw = TRUE]

\* this.saveToLocalStorage(), when the handler got that far
Midi_save(s) == IF s.threw THEN s ELSE saveToLocalStorage(s)

\* this.showNotification(message), when the handler got that far
Midi_notify(s, message) == IF s.threw THEN s ELSE showNotification(s, message)

\* record.field is undefined when the record lacks the field
Lacks(record, field) == field \notin DOMAIN record

\* CyberMidi.restoreState(state): state is a history entry, the persisted
\* record or a saved pattern (which has no mixedPatterns).  The fields are
\* assigned in turn; JSON.parse(JSON.stringify(undefined)) throws a
\* SyntaxError, which ends the method with the earlier fields assigned.
Midi_restoreState(s, state) ==
    LET mixed == IF Lacks(state, "mixedPatterns")
                 THEN [tracks |-> <<>>, saved |-> <<>>]
                 ELSE state.mixedPatterns
    IN  IF Lacks(state, "sequencerState") THEN Throw(s)
        ELSE IF Lacks(state, "trackStates")
        THEN Throw([s EXCEPT !.sequencerState = state.sequencerState])
        ELSE IF Lacks(state, "synthParams")
        THEN Throw([s EXCEPT !.sequencerState = state.sequencerState,
                             !.trackStates = state.trackStates,
                             !.mixedPatterns = mixed])
        ELSE saveToLocalStorage(
                 [s EXCEPT
                    !.sequencerState = state.sequencerState,
                    !.trackStates = state.trackStates,
                    !.mixedPatterns = mixed,
                    !.synthParams = state.synthParams,
                    !.code = IF Lacks(state, "code") THEN "" ELSE state.code])

Midi_undo(s) ==
    IF s.historyIndex <= 0
    THEN showNotification(s, "Nothing to undo")
    ELSE showNotification(
             Midi_restoreState([s EXCEPT !.historyIndex = s.historyIndex - 1],
                               s.history[s.historyIndex]),
             "Undo successful")

Midi_redo(s) ==
    IF s.historyIndex >= Len(s.history) - 1
    THEN showNotification(s, "Nothing to redo")
    ELSE showNotification(
             Midi_restoreState([s EXCEPT !.historyIndex = s.historyIndex + 1],
                               s.history[s.historyIndex + 2]),
             "Redo successful")

RECURSIVE JoinNotes(_, _)
\* steps.map(active => active ? sound : '~').join(' ')
JoinNotes(steps, sound) ==
    IF Len(steps) = 0 THEN ""
    ELSE IF Len(steps) = 1 THEN (IF steps[1] THEN sound ELSE "~")
    ELSE (IF steps[1] THEN sound ELSE "~") \o " " \o JoinNotes(Tail(steps), sound)

Midi_line(s, track) ==
    "note(\"" \o JoinNotes(Get(s.sequencerState, track), Get(s.trackStates, track).sound)
        \o "\").midi()\n"

RECURSIVE ConcatAll(_)
ConcatAll(lines) == IF Len(lines) = 0 THEN "" ELSE lines[1] \o ConcatAll(Tail(lines))

Midi_updateMixedCode(s) ==
    LET tracks == SelectSeq(Keys(s.mixedPatterns.tracks),
                            LAMBDA t : Get(s.mixedPatterns.tracks, t))
        savedOn == Keys(s.mixedPatterns.saved)
        trackLine(t) == <<Midi_line(s, t)>>
        savedLine(name) ==
            IF Get(s.mixedPatterns.saved, name)
               /\ Has(s.savedPatterns, name)
               /\ Get(s.savedPatterns, name).code # ""
            THEN <<Get(s.savedPatterns, name).code \o "\n">>
            ELSE <<>>
    IN  IF \E i \in 1..Len(tracks) :
              ~Has(s.sequencerState, tracks[i]) \/ ~Has(s.trackStates, tracks[i])
        THEN Throw(s)
        ELSE [s EXCEPT !.code =
                 ConcatAll(Flatten([i \in 1..Len(tracks) |-> trackLine(tracks[i])])
                           \o Flatten([i \in 1..Len(savedOn) |-> savedLine(savedOn[i])]))]

Midi_MixIfEnabled(s, track) ==
    IF Truthy(s.mixedPatterns.tracks, track) THEN Midi_updateMixedCode(s) ELSE s

Midi_toggleStep(s, track, index) ==
    LET s1 == saveToHistory(s)
    IN  IF ~Has(s1.sequencerState, track) THEN Throw(s1)
        ELSE LET steps == Get(s1.sequencerState, track)
                 s2 == SetGrid(s1, track, SetAt(steps, index, ~At(steps, index)))
             IN  Midi_save(Midi_MixIfEnabled(s2, track))

Midi_toggleMute(s, track) ==
    IF ~Has(s.trackStates, track) THEN Throw(s)
    ELSE LET cfg == Get(s.trackStates, track)
             s1 == SetCfg(s, track, [cfg EXCEPT !.muted = ~cfg.muted])
         IN  Midi_save(Midi_MixIfEnabled(s1, track))

Midi_toggleSolo(s, track) ==
    IF ~Has(s.trackStates, track) THEN Throw(s)
    ELSE LET cfg == Get(s.trackStates, track)
             s1 == SetCfg(s, track, [cfg EXCEPT !.solo = ~cfg.solo])
         IN  Midi_save(Midi_MixIfEnabled(s1, track))

Midi_mixTrack(s, track) ==
    LET s1 == [s EXCEPT !.mixedPatterns.tracks =
                  Put(@, track, ~Truthy(s.mixedPatterns.tracks, track))]
    IN  Midi_save(Midi_updateMixedCode(s1))

\* Math.random() > 0.5 for each cell: draw is the set of the cells (from 1)
\* for which it is
Midi_randomizeTrack(s, track, draw) ==
    LET s1 == saveToHistory(s)
    IN  IF ~Has(s1.trackStates, track) THEN Throw(s1)
        ELSE LET steps == Get(s1.trackStates, track).steps
                 s2 == SetGrid(s1, track, [i \in 1..steps |-> i \in draw])
             IN  Midi_save(Midi_MixIfEnabled(s2, track))

\* the change listener of a step selector: saveToHistory(), then
\* this.changeStepCount(...), a method CyberMidi does not define (TypeError)
Midi_stepsChange(s, track, count) == Throw(saveToHistory(s))

\* the change listener of a sound selector
Midi_soundChange(s, track, sound) ==
    LET s1 == saveToHistory(s)
    IN  IF ~Has(s1.trackStates, track) THEN Throw(s1)
        ELSE LET s2 == SetCfg(s1, track,
                              [Get(s1.trackStates, track) EXCEPT !.sound = sound])
             IN  Midi_save(Midi_MixIfEnabled(s2, track))

Midi_addTrack(s) ==
    LET s1 == saveToHistory(s)
        trackId == "note" \o ToString(Len(getTracks(s1)) + 1)
        s2 == SetCfg(SetGrid(s1, trackId, Blank(8)), trackId, defaultCfg("C4"))
    IN  showNotification(saveToLocalStorage(recreateSequencer(s2)),
                         "Track " \o trackId \o " added")

Midi_removeTrack(s) ==
    LET s1 == saveToHistory(s)
        tracks == getTracks(s1)
    IN  IF Len(tracks) <= 1
        THEN showNotification(s1, "Cannot remove the last track")
        ELSE LET lastTrack == tracks[Len(tracks)]
                 s2 == [s1 EXCEPT !.sequencerState = Del(@, lastTrack),
                                  !.trackStates = Del(@, lastTrack),
                                  !.mixedPatterns.tracks = Del(@, lastTrack)]
                 s3 == Midi_save(Midi_updateMixedCode(recreateSequencer(s2)))
             IN  Midi_notify(s3, "Track " \o lastTrack \o " removed")

RECURSIVE Midi_randomizeTracks(_, _, _)
\* this.getTracks().forEach(track => this.randomizeTrack(track))
Midi_randomizeTracks(s, tracks, draw) ==
    IF tracks = <<>> \/ s.threw THEN s
    ELSE Midi_randomizeTracks(Midi_randomizeTrack(s, Head(tracks), draw),
                              Tail(tracks), draw)

Midi_randomizeAll(s, draw) ==
    LET s1 == saveToHistory(s)
    IN  Midi_notify(Midi_randomizeTracks(s1, getTracks(s1), draw),
                    "All tracks randomized")

RECURSIVE Midi_clearTracks(_, _)
\* the forEach of clearAll: every grid blanked
Midi_clearTracks(s, tracks) ==
    IF tracks = <<>> THEN s
    ELSE Midi_clearTracks(
             SetGrid(s, Head(tracks), Blank(Get(s.trackStates, Head(tracks)).steps)),
             Tail(tracks))

Midi_clearAll(s) ==
    LET s1 == saveToHistory(s)
        s2 == [Midi_clearTracks(s1, getTracks(s1)) EXCEPT !.mixedPatterns.tracks = <<>>]
    IN  showNotification(saveToLocalStorage(Midi_updateMixedCode(s2)),
                         "All tracks cleared")

Midi_clearCode(s) ==
    LET s1 == Midi_updateMixedCode([s EXCEPT !.code = "", !.mixedPatterns.tracks = <<>>])
    IN  showNotification(saveToLocalStorage(saveToHistory(s1)), "Code cleared")

\* the input listener of the bpm slider and the change listener of bpm-enable
Midi_setBpm(s, value) ==
    saveToLocalStorage(saveToHistory([s EXCEPT !.synthParams.bpm = value]))

Midi_setBpmEnabled(s, checked) ==
    saveToLocalStorage(saveToHistory([s EXCEPT !.synthParams.bpmEnabled = checked]))

\* CyberMidi.evaluateCode(): evaluate is called synchronously; ok tells
\* whether it returned or threw
Midi_evaluateCode(s, ok) ==
    IF IsBlank(s.code) THEN showNotification(s, "No code to evaluate")
    ELSE IF ok
    THEN showNotification([s EXCEPT !.isPlaying = TRUE], "Code evaluated successfully")
    ELSE showNotification(s, "Evaluation failed")

Midi_stopCode(s) == showNotification([s EXCEPT !.isPlaying = FALSE], "Playback stopped")

Midi_generateTrackCode(s, track, ok) ==
    IF ~Has(s.sequencerState, track) \/ ~Has(s.trackStates, track) THEN Throw(s)
    ELSE showNotification(
             Midi_evaluateCode([s EXCEPT !.code = Midi_line(s, track)], ok),
             "Generated code for " \o track)

Midi_generateAllCode(s, ok) ==
    LET tracks == getTracks(s)
        text == ConcatAll([i \in 1..Len(tracks) |-> Midi_line(s, tracks[i])])
    IN  showNotification(Midi_evaluateCode([s EXCEPT !.code = text], ok),
                         "Generated code for all tracks")

Midi_savePattern(s, name) ==
    IF name = "" THEN showNotification(s, "Please enter a pattern name")
    ELSE IF Has(s.savedPatterns, name)
    THEN showNotification(s, "Pattern \"" \o name \o "\" already exists")
    ELSE LET s1 == [s EXCEPT !.savedPatterns =
                      Put(@, name, [sequencerState |-> s.sequencerState,
                                    trackStates |-> s.trackStates,
                                    synthParams |-> s.synthParams,
                                    code |-> s.code])]
         IN  showNotification(saveToLocalStorage(saveToHistory(s1)),
                              "Pattern \"" \o name \o "\" saved")

Midi_loadPattern(s, name, ok) ==
    IF ~Has(s.savedPatterns, name)
    THEN showNotification(s, "Pattern \"" \o name \o "\" not found")
    ELSE showNotification(
             Midi_evaluateCode(Midi_restoreState(s, Get(s.savedPatterns, name)), ok),
             "Pattern \"" \o name \o "\" loaded")

Midi_mixSavedPattern(s, name) ==
    LET s1 == Midi_updateMixedCode(
                  [s EXCEPT !.mixedPatterns.saved =
                      Put(@, name, ~Truthy(s.mixedPatterns.saved, name))])
    IN  IF s1.threw THEN s1
        ELSE showNotification(saveToLocalStorage(saveToHistory(s1)),
                 "Saved pattern \"" \o name \o "\" "
                     \o (IF Get(s1.mixedPatterns.saved, name) THEN "mixed" ELSE "removed"))

Midi_deletePattern(s, name) ==
    IF ~Has(s.savedPatterns, name)
    THEN showNotification(s, "Pattern \"" \o name \o "\" not found")
    ELSE LET s1 == Midi_updateMixedCode(
                       [s EXCEPT !.savedPatterns = Del(@, name),
                                 !.mixedPatterns.saved = Del(@, name)])
         IN  IF s1.threw THEN s1
             ELSE showNotification(saveToLocalStorage(saveToHistory(s1)),
                                   "Pattern \"" \o name \o "\" deleted")

(***************************************************************************)
(* Import of a pattern file (both classes share this code).  A payload is   *)
(* the text of the chosen file, by what JSON.parse and new Map make of it:  *)
(*   "none"    no file was chosen (files[0] is undefined);                  *)
(*   "text"    not JSON: JSON.parse throws a SyntaxError;                   *)
(*   "null"    the JSON text null: new Map(null) is an empty Map;           *)
(*   "number"  a JSON number: new Map throws, a number is not iterable;     *)
(*   "numbers" a JSON list of numbers: new Map throws, an item is no entry; *)
(*   "pairs"   a JSON list of [name, record] pairs, held in items.          *)
(***************************************************************************)
\* new Map(items): a name that comes twice keeps its first place and its
\* last record
RECURSIVE MapOf(_)
MapOf(items) ==
    IF items = <<>> THEN <<>>
    ELSE LET last == items[Len(items)]
         IN  Put(MapOf(SubSeq(items, 1, Len(items) - 1)), last.name, last.record)

\* map.set(name, record) for each item in turn
RECURSIVE SetAll(_, _)
SetAll(map, items) ==
    IF items = <<>> THEN map
    ELSE SetAll(Put(map, items[1].name, items[1].record), Tail(items))

\* the file written with the entries of the library in the reverse order
ExportedFile_newestFirst(s) ==
    [json |-> "pairs",
     items |-> [i \in 1..Len(s.savedPatterns) |->
                   LET entry == s.savedPatterns[Len(s.savedPatterns) + 1 - i]
                   IN  [name |-> entry.k, record |-> entry.v]]]

\* the file exportPatterns() offers for download: JSON.stringify of the
\* entries of the Map, a list of [name, record] pairs in the Map's order
ExportedFile(s) ==
    [json |-> "pairs",
     items |-> [i \in 1..Len(s.savedPatterns) |->
                   [name |-> s.savedPatterns[i].k, record |-> s.savedPatterns[i].v]]]

\* exportPatterns(): the download is started and reported
exportPatterns(s) == showNotification(s, "Patterns exported")

\* importPatterns(event) up to reader.readAsText(file)
importPatterns(s, payload) ==
    IF payload.json = "none" THEN showNotification(s, "No file selected")
    ELSE [s EXCEPT !.pendingReads = @ \cup {payload}]

\* reader.onload with the imported records set into the Map the page has
importPatterns_onload_mergesLibrary(s, payload) ==
    IF payload.json \in {"text", "number", "numbers"}
    THEN showNotification(s, "Invalid pattern file")
    ELSE LET data == IF payload.json = "null" THEN <<>> ELSE payload.items
             s1 == [s EXCEPT !.savedPatterns = SetAll(@, data),
                             !.mixedPatterns.saved = <<>>]
             s2 == IF s.variant = "strudel" THEN updateMixedCode(s1)
                   ELSE Midi_updateMixedCode(s1)
         IN  IF s2.threw
             THEN showNotification([s2 EXCEPT !.threw = FALSE], "Invalid pattern file")
             ELSE showNotification(saveToLocalStorage(saveToHistory(s2)),
                                   "Patterns imported")

\* reader.onload: the try block and its catch
importPatterns_onload(s, payload) ==
    IF payload.json \in {"text", "number", "numbers"}
    THEN showNotification(s, "Invalid pattern file")
    ELSE LET data == IF payload.json = "null" THEN <<>> ELSE payload.items
             s1 == [s EXCEPT !.savedPatterns = MapOf(data),
                             !.mixedPatterns.saved = <<>>]
             s2 == IF s.variant = "strudel" THEN updateMixedCode(s1)
                   ELSE Midi_updateMixedCode(s1)
         IN  IF s2.threw
             THEN showNotification([s2 EXCEPT !.threw = FALSE], "Invalid pattern file")
             ELSE showNotification(saveToLocalStorage(saveToHistory(s2)),
                                   "Patterns imported")

(***************************************************************************)
(* Construction, init() and a reload of the page.                           *)
(***************************************************************************)
Grids(tracks) == [i \in 1..Len(tracks) |-> [k |-> tracks[i], v |-> Blank(8)]]

\* the fields the two constructors set; the page starts with an empty editor
\* and with the step buttons setupSequencer renders for the constructor's
\* tracks; only CyberStrudel.setupEventListeners wires the track controls
Constructed(v, storage) ==
    [variant |-> v,
     sequencerState |-> IF v = "strudel" THEN Grids(<<"bd", "sd", "hh", "cp">>)
                        ELSE Grids(<<"note">>),
     trackStates |-> IF v = "strudel"
                     THEN <<[k |-> "bd", v |-> defaultCfg("bd")],
                            [k |-> "sd", v |-> defaultCfg("sd")],
                            [k |-> "hh", v |-> defaultCfg("hh")],
                            [k |-> "cp", v |-> defaultCfg("cp")]>>
                     ELSE <<[k |-> "note", v |-> defaultCfg("C4")]>>,
     mixedPatterns |-> IF v = "strudel" THEN onlyMix(<<>>, <<>>, <<>>)
                       ELSE [tracks |-> <<>>, saved |-> <<>>],
     synthParams |-> IF v = "strudel"
                     THEN [lpf |-> 800, lpq |-> 1, room |-> 5, delay |-> 3,
                           bpm |-> 120, bpmEnabled |-> TRUE]
                     ELSE [bpm |-> 120, bpmEnabled |-> TRUE],
     code |-> "",
     savedPatterns |-> <<>>,
     history |-> <<>>,
     historyIndex |-> -1,
     dom |-> [t \in (IF v = "strudel" THEN originalTracks ELSE {"note"}) |->
                 [buttons |-> 8, wired |-> v = "strudel"]],
     stored |-> storage,
     notification |-> "",
     isPlaying |-> FALSE,
     currentPattern |-> 0,
     pendingEvals |-> {},
     nextEval |-> 1,
     editTimer |-> FALSE,
     pendingReads |-> {},
     threw |-> FALSE]

\* CyberStrudel.loadSavedData(): parsed.field || the value the constructor
\* set; the editor is set only when the stored text is not empty
loadSavedData(s) ==
    IF s.stored = <<>> THEN s
    ELSE LET parsed == s.stored[1]
         IN  [s EXCEPT !.sequencerState = IF Lacks(parsed, "sequencerState") THEN @
                                          ELSE parsed.sequencerState,
                       !.trackStates = IF Lacks(parsed, "trackStates") THEN @
                                       ELSE parsed.trackStates,
                       !.mixedPatterns = IF Lacks(parsed, "mixedPatterns")
                                         THEN onlyMix(<<>>, <<>>, <<>>)
                                         ELSE parsed.mixedPatterns,
                       !.savedPatterns = IF Lacks(parsed, "savedPatterns") THEN <<>>
                                         ELSE parsed.savedPatterns,
                       !.synthParams = IF Lacks(parsed, "synthParams") THEN @
                                       ELSE parsed.synthParams,
                       !.code = IF Lacks(parsed, "code") \/ parsed.code = "" THEN @
                                ELSE parsed.code]

\* CyberMidi.loadSavedData(): the catch reports what restoreState threw
Midi_loadSavedData(s) ==
    IF s.stored = <<>> THEN s
    ELSE LET s1 == Midi_restoreState(s, s.stored[1])
         IN  IF s1.threw
             THEN showNotification([s1 EXCEPT !.threw = FALSE],
                                   "Failed to load saved state from local storage")
             ELSE s1

\* new CyberStrudel() / new CyberMidi() on a page whose localStorage is storage
init(v, storage) ==
    IF v = "strudel"
    THEN showNotification(saveToHistory(loadSavedData(Constructed(v, storage))),
                          "CyberSynth Strudel initialized!")
    ELSE showNotification(saveToHistory(Midi_loadSavedData(Constructed(v, storage))),
                          "CyberMidi initialized!")

(***************************************************************************)
(* Inputs of the user events.                                               *)
(***************************************************************************)
ClickTracks == {"bd", "sd", "track4", "note", "note2"}
StepInputs == {0, 5, 12}
CountInputs == {4, 8, 16}
SoundInputs == {"sine", "D4"}
PresetInputs == {"a", "c"}
PatternNames == {"p", "q"}
TypedTexts == {"s(\"bd*4\")", ""}
DrawInputs == {{}, {1, 3, 5, 7, 9, 11, 13, 15}}
BpmInputs == {90}
SynthInputs == {<<"lpf", 400>>, <<"room", 9>>}

\* a record of a pattern file, as exportPatterns wrote it on a fresh page
ImportRecord(v, text) ==
    LET fresh == Constructed(v, <<>>)
    IN  [code |-> text, sequencerState |-> fresh.sequencerState,
         trackStates |-> fresh.trackStates, synthParams |-> fresh.synthParams]
ImportInputs(v) ==
    {[json |-> kind, items |-> <<>>] :
        kind \in {"none", "text", "null", "number", "numbers", "pairs"}}
    \cup {[json |-> "pairs",
           items |-> <<[name |-> "p", record |-> ImportRecord(v, "s(\"hh*8\")")]>>],
          [json |-> "pairs",
           items |-> <<[name |-> "q", record |-> ImportRecord(v, "s(\"cp\")")],
                       [name |-> "r", record |-> ImportRecord(v, "s(\"hh*8\")")]>>]}

\* the track controls the page shows and that have listeners
Wired(t) == t \in DOMAIN dom /\ dom[t].wired

Strudel == variant = "strudel"
Midi == variant = "midi"

\* one user event: the handler runs to its end (or to its TypeError)
Apply(n) ==
    /\ ops > 0
    /\ Cardinality(n.pendingEvals) <= MaxPending
    /\ Cardinality(n.pendingReads) <= MaxPending
    /\ ops' = ops - 1
    /\ variant' = n.variant
    /\ sequencerState' = n.sequencerState
    /\ trackStates' = n.trackStates
    /\ mixedPatterns' = n.mixedPatterns
    /\ synthParams' = n.synthParams
    /\ code' = n.code
    /\ savedPatterns' = n.savedPatterns
    /\ history' = n.history
    /\ historyIndex' = n.historyIndex
    /\ dom' = n.dom
    /\ stored' = n.stored
    /\ notification' = n.notification
    /\ isPlaying' = n.isPlaying
    /\ currentPattern' = n.currentPattern
    /\ pendingEvals' = n.pendingEvals
    /\ nextEval' = n.nextEval
    /\ editTimer' = n.editTimer
    /\ pendingReads' = n.pendingReads

(***************************************************************************)
(* CyberStrudel: the listeners.                                             *)
(***************************************************************************)
StepClick(t, i) ==
    /\ Strudel /\ t \in DOMAIN dom /\ i < dom[t].buttons
    /\ Apply(toggleStep(Cur, t, i))

MuteClick(t) == Strudel /\ Wired(t) /\ Apply(toggleMute(saveToHistory(Cur), t))

SoloClick(t) == Strudel /\ Wired(t) /\ Apply(toggleSolo(saveToHistory(Cur), t))

MixClick(t) == Strudel /\ Wired(t) /\ Apply(mixTrack(saveToHistory(Cur), t))

RandomClick(t, draw) ==
    /\ Strudel /\ Wired(t)
    /\ Apply(randomizeTrack(saveToHistory(Cur), t, draw))

StepsChange(t, count) ==
    /\ Strudel /\ Wired(t)
    /\ Has(trackStates, t) => count # Get(trackStates, t).steps
    /\ Apply(changeStepCount(saveToHistory(Cur), t, count))

SoundChange(t, sound) ==
    /\ Strudel /\ Wired(t)
    /\ Has(trackStates, t) => sound # Get(trackStates, t).sound
    /\ Apply(changeTrackSound(saveToHistory(Cur), t, sound))

GenerateClick(t) == Strudel /\ Wired(t) /\ Apply(generateTrackCode(Cur, t))

AddTrack == Strudel /\ Len(sequencerState) < MaxTracks /\ Apply(addTrack(Cur))

RemoveTrack == Strudel /\ Apply(removeTrack(Cur))

Undo == Strudel /\ Apply(undo(Cur))

Redo == Strudel /\ Apply(redo(Cur))

SequencerRandom(draw) ==
    /\ Strudel
    /\ Apply(randomizeSequencer(saveToHistory(Cur), draw))

SequencerClear == Strudel /\ Apply(clearSequencer(saveToHistory(Cur)))

SequencerGenerate == Strudel /\ Apply(generateSequencerCode(Cur))

PresetClick(key) == Strudel /\ Apply(loadPreset(saveToHistory(Cur), key))

MixPresetClick(key) == Strudel /\ Apply(mixPreset(saveToHistory(Cur), key))

SavePatternClick(name) == Strudel /\ Apply(savePattern(saveToHistory(Cur), name))

\* the buttons of the pattern bank exist for the saved patterns only
LoadPatternClick(name) ==
    Strudel /\ Has(savedPatterns, name) /\ Apply(loadPattern(saveToHistory(Cur), name))

MixSavedClick(name) ==
    Strudel /\ Has(savedPatterns, name) /\ Apply(mixSavedPattern(saveToHistory(Cur), name))

DeletePatternClick(name) ==
    Strudel /\ Has(savedPatterns, name) /\ Apply(deletePattern(saveToHistory(Cur), name))

ClearCodeClick == Strudel /\ Apply(clearCode(Cur))

\* typing in the editor: the text changes at once, the debounced callback
\* (saveToHistory, saveToLocalStorage) is (re)scheduled
CodeInput(text) ==
    Strudel /\ text # code /\ Apply([Cur EXCEPT !.code = text, !.editTimer = TRUE])

\* the debounce timer fires
EditTimerFires ==
    /\ Strudel /\ editTimer
    /\ LET n == saveToLocalStorage(saveToHistory([Cur EXCEPT !.editTimer = FALSE]))
       IN  /\ history' = n.history /\ historyIndex' = n.historyIndex
           /\ stored' = n.stored /\ editTimer' = FALSE
    /\ UNCHANGED <<variant, sequencerState, trackStates, mixedPatterns, synthParams,
                   code, savedPatterns, dom, notification, isPlaying, currentPattern,
                   pendingEvals, nextEval, pendingReads, ops>>

SynthSlider(pv) == Strudel /\ Apply(setSynthParam(Cur, pv[1], pv[2]))

BpmSlider(value) == Strudel /\ value # synthParams.bpm /\ Apply(setBpm(Cur, value))

BpmEnableChange == Strudel /\ Apply(setBpmEnabled(Cur, ~synthParams.bpmEnabled))

PlayClick == Strudel /\ Apply(togglePlayback(Cur))

StopClick == Strudel /\ Apply(stop(Cur))

EvaluateClick == Strudel /\ Apply(evaluateCode(Cur))

\* the continuation of evaluateCode after `await evaluate(code)` returned
EvalResolve(id) ==
    /\ Strudel /\ id \in pendingEvals
    /\ pendingEvals' = pendingEvals \ {id}
    /\ currentPattern' = id
    /\ isPlaying' = TRUE
    /\ notification' = "Code playing"
    /\ UNCHANGED <<variant, sequencerState, trackStates, mixedPatterns, synthParams,
                   code, savedPatterns, history, historyIndex, dom, stored,
                   nextEval, editTimer, pendingReads, ops>>

\* the catch branch of evaluateCode with the editor emptied
EvalReject_clearsEditor(id) ==
    /\ Strudel /\ id \in pendingEvals
    /\ pendingEvals' = pendingEvals \ {id}
    /\ notification' = "Error"
    /\ code' = ""
    /\ UNCHANGED <<variant, sequencerState, trackStates, mixedPatterns, synthParams,
                   savedPatterns, history, historyIndex, dom, stored,
                   isPlaying, currentPattern, nextEval, editTimer, pendingReads, ops>>

\* the catch branch of evaluateCode: evaluate(code) threw
EvalReject(id) ==
    /\ Strudel /\ id \in pendingEvals
    /\ pendingEvals' = pendingEvals \ {id}
    /\ notification' = "Error"
    /\ UNCHANGED <<variant, sequencerState, trackStates, mixedPatterns, synthParams,
                   code, savedPatterns, history, historyIndex, dom, stored,
                   isPlaying, currentPattern, nextEval, editTimer, pendingReads, ops>>

\* the change event of the file input: history is pushed, then the read starts
ImportFileChange(payload) ==
    Strudel /\ Apply(importPatterns(saveToHistory(Cur), payload))

\* a callback the browser runs later: it is no user event
Settle(n) ==
    /\ Cardinality(n.pendingEvals) <= MaxPending
    /\ variant' = n.variant
    /\ sequencerState' = n.sequencerState
    /\ trackStates' = n.trackStates
    /\ mixedPatterns' = n.mixedPatterns
    /\ synthParams' = n.synthParams
    /\ code' = n.code
    /\ savedPatterns' = n.savedPatterns
    /\ history' = n.history
    /\ historyIndex' = n.historyIndex
    /\ dom' = n.dom
    /\ stored' = n.stored
    /\ notification' = n.notification
    /\ isPlaying' = n.isPlaying
    /\ currentPattern' = n.currentPattern
    /\ pendingEvals' = n.pendingEvals
    /\ nextEval' = n.nextEval
    /\ editTimer' = n.editTimer
    /\ pendingReads' = n.pendingReads
    /\ UNCHANGED ops

\* the file has been read: reader.onload runs (either class)
ImportLoaded(payload) ==
    /\ payload \in pendingReads
    /\ Settle(importPatterns_onload([Cur EXCEPT !.pendingReads = @ \ {payload}],
                                    payload))

\* the export button, wired alike in both classes
ExportClick == Apply(exportPatterns(Cur))

\* the page is loaded again: a new instance over the same localStorage
Reload == Apply(init(variant, stored))

\* the fields of the persisted record
StoredFields ==
    {"sequencerState", "trackStates", "mixedPatterns", "savedPatterns",
     "synthParams", "code"}

\* the page is loaded over a localStorage whose record lacks some fields
ReloadLacking(missing) ==
    /\ stored # <<>>
    /\ Apply(init(variant, <<[f \in DOMAIN stored[1] \ missing |-> stored[1][f]]>>))

(***************************************************************************)
(* CyberMidi: the listeners.                                                *)
(***************************************************************************)
Midi_StepClick(t, i) ==
    /\ Midi /\ t \in DOMAIN dom /\ i < dom[t].buttons
    /\ Apply(Midi_toggleStep(Cur, t, i))

Midi_MuteClick(t) == Midi /\ Wired(t) /\ Apply(Midi_toggleMute(saveToHistory(Cur), t))

Midi_SoloClick(t) == Midi /\ Wired(t) /\ Apply(Midi_toggleSolo(saveToHistory(Cur), t))

Midi_MixClick(t) == Midi /\ Wired(t) /\ Apply(Midi_mixTrack(saveToHistory(Cur), t))

Midi_RandomClick(t, draw) ==
    /\ Midi /\ Wired(t)
    /\ Apply(Midi_randomizeTrack(saveToHistory(Cur), t, draw))

Midi_StepsChange(t, count) ==
    /\ Midi /\ Wired(t)
    /\ Has(trackStates, t) => count # Get(trackStates, t).steps
    /\ Apply(Midi_stepsChange(Cur, t, count))

Midi_SoundChange(t, sound) ==
    /\ Midi /\ Wired(t)
    /\ Has(trackStates, t) => sound # Get(trackStates, t).sound
    /\ Apply(Midi_soundChange(Cur, t, sound))

Midi_GenerateClick(t, ok) == Midi /\ Wired(t) /\ Apply(Midi_generateTrackCode(Cur, t, ok))

Midi_AddTrack == Midi /\ Len(sequencerState) < MaxMidiTracks /\ Apply(Midi_addTrack(Cur))

Midi_RemoveTrack == Midi /\ Apply(Midi_removeTrack(Cur))

Midi_Undo == Midi /\ Apply(Midi_undo(Cur))

Midi_Redo == Midi /\ Apply(Midi_redo(Cur))

Midi_RandomizeAll(draw) ==
    Midi /\ Apply(Midi_randomizeAll(Cur, draw))

Midi_ClearAll == Midi /\ Apply(Midi_clearAll(Cur))

Midi_GenerateAll(ok) == Midi /\ Apply(Midi_generateAllCode(Cur, ok))

Midi_ClearCodeClick == Midi /\ Apply(Midi_clearCode(Cur))

Midi_BpmSlider(value) == Midi /\ value # synthParams.bpm /\ Apply(Midi_setBpm(Cur, value))

Midi_BpmEnableChange == Midi /\ Apply(Midi_setBpmEnabled(Cur, ~synthParams.bpmEnabled))

Midi_PlayClick(ok) == Midi /\ Apply(Midi_evaluateCode(Cur, ok))

Midi_StopClick == Midi /\ Apply(Midi_stopCode(Cur))

\* CyberMidi attaches no listener to the editor: typing changes the text only
Midi_CodeInput(text) == Midi /\ text # code /\ Apply([Cur EXCEPT !.code = text])

Midi_SavePatternClick(name) == Midi /\ Apply(Midi_savePattern(Cur, name))

Midi_LoadPatternClick(name, ok) ==
    Midi /\ Has(savedPatterns, name) /\ Apply(Midi_loadPattern(Cur, name, ok))

Midi_MixSavedClick(name) ==
    Midi /\ Has(savedPatterns, name) /\ Apply(Midi_mixSavedPattern(Cur, name))

Midi_DeletePatternClick(name) ==
    Midi /\ Has(savedPatterns, name) /\ Apply(Midi_deletePattern(Cur, name))

\* the change event of the file input: the read starts, nothing is pushed
Midi_ImportFileChange(payload) == Midi /\ Apply(importPatterns(Cur, payload))

(***************************************************************************)
(* The specification.                                                       *)
(***************************************************************************)
\* the variables hold the fields of the instance n
Holds(n) ==
    /\ variant = n.variant
    /\ sequencerState = n.sequencerState
    /\ trackStates = n.trackStates
    /\ mixedPatterns = n.mixedPatterns
    /\ synthParams = n.synthParams
    /\ code = n.code
    /\ savedPatterns = n.savedPatterns
    /\ history = n.history
    /\ historyIndex = n.historyIndex
    /\ dom = n.dom
    /\ stored = n.stored
    /\ notification = n.notification
    /\ isPlaying = n.isPlaying
    /\ currentPattern = n.currentPattern
    /\ pendingEvals = n.pendingEvals
    /\ nextEval = n.nextEval
    /\ editTimer = n.editTimer
    /\ pendingReads = n.pendingReads

\* the page has been loaded for the first time: nothing is stored yet
Init ==
    /\ ops = MaxOps
    /\ \E v \in {"strudel", "midi"} : Holds(init(v, <<>>))

Next ==
    \/ \E t \in ClickTracks, i \in StepInputs : StepClick(t, i)
    \/ \E t \in ClickTracks : MuteClick(t)
    \/ \E t \in ClickTracks : SoloClick(t)
    \/ \E t \in ClickTracks : MixClick(t)
    \/ \E t \in ClickTracks, draw \in DrawInputs : RandomClick(t, draw)
    \/ \E t \in ClickTracks, count \in CountInputs : StepsChange(t, count)
    \/ \E t \in ClickTracks, sound \in SoundInputs : SoundChange(t, sound)
    \/ \E t \in ClickTracks : GenerateClick(t)
    \/ AddTrack
    \/ RemoveTrack
    \/ Undo
    \/ Redo
    \/ \E draw \in DrawInputs : SequencerRandom(draw)
    \/ SequencerClear
    \/ SequencerGenerate
    \/ \E key \in PresetInputs : PresetClick(key)
    \/ \E key \in PresetInputs : MixPresetClick(key)
    \/ \E name \in PatternNames : SavePatternClick(name)
    \/ \E name \in PatternNames : LoadPatternClick(name)
    \/ \E name \in PatternNames : MixSavedClick(name)
    \/ \E name \in PatternNames : DeletePatternClick(name)
    \/ ClearCodeClick
    \/ \E text \in TypedTexts : CodeInput(text)
    \/ EditTimerFires
    \/ \E pv \in SynthInputs : SynthSlider(pv)
    \/ \E value \in BpmInputs : BpmSlider(value)
    \/ BpmEnableChange
    \/ PlayClick
    \/ StopClick
    \/ EvaluateClick
    \/ \E id \in pendingEvals : EvalResolve(id)
    \/ \E id \in pendingEvals : EvalReject(id)
    \/ \E payload \in ImportInputs(variant) : ImportFileChange(payload)
    \/ \E payload \in pendingReads : ImportLoaded(payload)
    \/ Reload
    \/ \E t \in ClickTracks, i \in StepInputs : Midi_StepClick(t, i)
    \/ \E t \in ClickTracks : Midi_MuteClick(t)
    \/ \E t \in ClickTracks : Midi_SoloClick(t)
    \/ \E t \in ClickTracks : Midi_MixClick(t)
    \/ \E t \in ClickTracks, draw \in DrawInputs : Midi_RandomClick(t, draw)
    \/ \E t \in ClickTracks, count \in CountInputs : Midi_StepsChange(t, count)
    \/ \E t \in ClickTracks, sound \in SoundInputs : Midi_SoundChange(t, sound)
    \/ \E t \in ClickTracks, ok \in BOOLEAN : Midi_GenerateClick(t, ok)
    \/ Midi_AddTrack
    \/ Midi_RemoveTrack
    \/ Midi_Undo
    \/ Midi_Redo
    \/ \E draw \in DrawInputs : Midi_RandomizeAll(draw)
    \/ Midi_ClearAll
    \/ \E ok \in BOOLEAN : Midi_GenerateAll(ok)
    \/ Midi_ClearCodeClick
    \/ \E value \in BpmInputs : Midi_BpmSlider(value)
    \/ Midi_BpmEnableChange
    \/ \E ok \in BOOLEAN : Midi_PlayClick(ok)
    \/ Midi_StopClick
    \/ \E text \in TypedTexts : Midi_CodeInput(text)
    \/ \E name \in PatternNames : Midi_SavePatternClick(name)
    \/ \E name \in PatternNames, ok \in BOOLEAN : Midi_LoadPatternClick(name, ok)
    \/ \E name \in PatternNames : Midi_MixSavedClick(name)
    \/ \E name \in PatternNames : Midi_DeletePatternClick(name)
    \/ \E payload \in ImportInputs(variant) : Midi_ImportFileChange(payload)

Spec == Init /\ [][Next]_vars

(***************************************************************************)
(* The history stack at its bound: the page after init() and a run of      *)
(* clicks on the first two step buttons of the first track, then clicks,   *)
(* mute toggles, undo and redo in any order.                               *)
(***************************************************************************)
RECURSIVE Clicks(_, _)
\* the instance s after k more step clicks on the first track
Clicks(s, k) ==
    IF k = 0 \/ s.threw THEN s
    ELSE Clicks(IF s.variant = "strudel" THEN toggleStep(s, "bd", k % 2)
                ELSE Midi_toggleStep(s, "note", k % 2),
                k - 1)

\* the instance after init() and k step clicks
Clicked(v, k) == Clicks(init(v, <<>>), k)

\* clicks after which two more pushes fill the stack
DeepClicks == maxHistory - 2

HistorySteps == {0, 5}

InitHistory ==
    /\ ops = MaxHistoryOps
    /\ \E v \in {"strudel", "midi"}, k \in {0, DeepClicks} : Holds(Clicked(v, k))

NextHistory ==
    \/ \E i \in HistorySteps : StepClick("bd", i)
    \/ MuteClick("bd")
    \/ Undo
    \/ Redo
    \/ \E i \in HistorySteps : Midi_StepClick("note", i)
    \/ Midi_Undo
    \/ Midi_Redo

SpecHistory == InitHistory /\ [][NextHistory]_vars

(***************************************************************************)
(* Two step clicks, two undos and a redo, from the page after init() and   *)
(* up to MaxPrefix step clicks.                                             *)
(***************************************************************************)
Script == <<"click", "click", "undo", "undo", "redo">>

\* the event of the script that is next
Due == Script[Len(Script) - ops + 1]

InitUndoRedo ==
    /\ ops = Len(Script)
    /\ \E v \in {"strudel", "midi"}, k \in 0..MaxPrefix : Holds(Clicked(v, k))

NextUndoRedo ==
    \/ ops > 0 /\ Due = "click" /\ \E i \in StepInputs : StepClick("bd", i)
    \/ ops > 0 /\ Due = "undo" /\ Undo
    \/ ops > 0 /\ Due = "redo" /\ Redo
    \/ ops > 0 /\ Due = "click" /\ \E i \in StepInputs : Midi_StepClick("note", i)
    \/ ops > 0 /\ Due = "undo" /\ Midi_Undo
    \/ ops > 0 /\ Due = "redo" /\ Midi_Redo

SpecUndoRedo == InitUndoRedo /\ [][NextUndoRedo]_vars

(***************************************************************************)
(* Restoration: events that change each of the five parts of the editable  *)
(* state (grids, track settings, mix selection, synth parameters, text),   *)
(* then undo, redo and a reload of the page, in any order.                 *)
(***************************************************************************)
InitRestore ==
    /\ ops = MaxRestoreOps
    /\ \E v \in {"strudel", "midi"} : Holds(init(v, <<>>))

NextRestore ==
    \/ StepClick("bd", 0)
    \/ StepsChange("bd", 16)
    \/ MixClick("bd")
    \/ AddTrack
    \/ \E pv \in SynthInputs : SynthSlider(pv)
    \/ \E text \in TypedTexts : CodeInput(text)
    \/ EditTimerFires
    \/ Undo
    \/ Redo
    \/ Reload
    \/ Midi_StepClick("note", 0)
    \/ Midi_MixClick("note")
    \/ Midi_AddTrack
    \/ \E text \in TypedTexts : Midi_CodeInput(text)
    \/ Midi_Undo
    \/ Midi_Redo

SpecRestore == InitRestore /\ [][NextRestore]_vars

(***************************************************************************)
(* The track list: tracks are added and removed, stepped, saved in a       *)
(* pattern and loaded again, with undo and redo, in any order.  The page   *)
(* starts after init(), in CyberStrudel also with a text typed in the      *)
(* editor (savePattern refuses an empty one).                              *)
(***************************************************************************)
InitTracks ==
    /\ ops = MaxTrackOps
    /\ \/ \E v \in {"strudel", "midi"} : Holds(init(v, <<>>))
       \/ \E text \in TypedTexts \ {""} :
             Holds([init("strudel", <<>>) EXCEPT !.code = text, !.editTimer = TRUE])

NextTracks ==
    \/ AddTrack
    \/ RemoveTrack
    \/ \E t \in {"cp", "track4"} : StepClick(t, 0)
    \/ SavePatternClick("p")
    \/ LoadPatternClick("p")
    \/ Undo
    \/ Redo
    \/ Midi_AddTrack
    \/ Midi_RemoveTrack
    \/ \E t \in {"note", "note2"} : Midi_StepClick(t, 0)
    \/ Midi_SavePatternClick("p")
    \/ \E ok \in BOOLEAN : Midi_LoadPatternClick("p", ok)
    \/ Midi_Undo
    \/ Midi_Redo

SpecTracks == InitTracks /\ [][NextTracks]_vars

(***************************************************************************)
(* The pattern library: patterns are saved, mixed, loaded and deleted      *)
(* while the text, a grid and a synth parameter change, with undo and      *)
(* redo, in any order.  The page starts as in SpecTracks.                  *)
(***************************************************************************)
InitLibrary ==
    /\ ops = MaxLibraryOps
    /\ \/ \E v \in {"strudel", "midi"} : Holds(init(v, <<>>))
       \/ \E text \in TypedTexts \ {""} :
             Holds([init("strudel", <<>>) EXCEPT !.code = text, !.editTimer = TRUE])

NextLibrary ==
    \/ \E name \in PatternNames : SavePatternClick(name)
    \/ \E name \in PatternNames : MixSavedClick(name)
    \/ \E name \in PatternNames : DeletePatternClick(name)
    \/ LoadPatternClick("p")
    \/ \E key \in PresetInputs : PresetClick(key)
    \/ StepClick("bd", 0)
    \/ SynthSlider(<<"lpf", 400>>)
    \/ Undo
    \/ Redo
    \/ \E name \in PatternNames : Midi_SavePatternClick(name)
    \/ \E name \in PatternNames : Midi_MixSavedClick(name)
    \/ \E name \in PatternNames : Midi_DeletePatternClick(name)
    \/ \E ok \in BOOLEAN : Midi_LoadPatternClick("p", ok)
    \/ \E text \in TypedTexts : Midi_CodeInput(text)
    \/ \E ok \in BOOLEAN : Midi_GenerateAll(ok)
    \/ Midi_StepClick("note", 0)
    \/ Midi_Undo
    \/ Midi_Redo

SpecLibrary == InitLibrary /\ [][NextLibrary]_vars

(***************************************************************************)
(* The import of a pattern file: patterns are saved and selected for the    *)
(* mix, playback is toggled, a file is chosen and read.                     *)
(***************************************************************************)
InitImport ==
    /\ ops = MaxImportOps
    /\ \/ \E v \in {"strudel", "midi"} : Holds(init(v, <<>>))
       \/ \E text \in TypedTexts \ {""} :
             Holds([init("strudel", <<>>) EXCEPT !.code = text, !.editTimer = TRUE])

NextImport ==
    \/ \E name \in PatternNames : SavePatternClick(name)
    \/ \E name \in PatternNames : MixSavedClick(name)
    \/ MixClick("bd")
    \/ StepClick("bd", 0)
    \/ PlayClick
    \/ Undo
    \/ \E payload \in ImportInputs(variant) : ImportFileChange(payload)
    \/ \E payload \in pendingReads : ImportLoaded(payload)
    \/ \E name \in PatternNames : Midi_SavePatternClick(name)
    \/ \E name \in PatternNames : Midi_MixSavedClick(name)
    \/ Midi_StepClick("note", 0)
    \/ Midi_Undo
    \/ \E payload \in ImportInputs(variant) : Midi_ImportFileChange(payload)

SpecImport == InitImport /\ [][NextImport]_vars

(***************************************************************************)
(* The load of a persisted record: a few events change and persist the      *)
(* state, then the page is loaded over a record that lacks some fields.     *)
(***************************************************************************)
InitLoad ==
    /\ ops = MaxLoadOps
    /\ \/ \E v \in {"strudel", "midi"} : Holds(init(v, <<>>))
       \/ \E text \in TypedTexts \ {""} :
             Holds([init("strudel", <<>>) EXCEPT !.code = text, !.editTimer = TRUE])

NextLoad ==
    \/ StepClick("bd", 0)
    \/ MuteClick("bd")
    \/ MixClick("bd")
    \/ SavePatternClick("p")
    \/ BpmSlider(90)
    \/ Midi_StepClick("note", 0)
    \/ Midi_SavePatternClick("p")
    \/ Midi_BpmSlider(90)
    \/ Midi_BpmEnableChange
    \/ \E text \in TypedTexts : Midi_CodeInput(text)
    \/ \E missing \in SUBSET StoredFields : ReloadLacking(missing)

SpecLoad == InitLoad /\ [][NextLoad]_vars

(***************************************************************************)
(* Two playback requests in CyberStrudel: after a few events that leave a   *)
(* text in the editor, evaluate is clicked, and while its evaluate(code) is *)
(* awaited, stop or evaluate is clicked.  The awaited calls settle at any   *)
(* time, in any order.                                                      *)
(***************************************************************************)
InitPlayback ==
    /\ ops = MaxPlaybackOps
    /\ Holds(init("strudel", <<>>))

NextPlayback ==
    \/ ops > 2 /\ \E i \in StepInputs : StepClick("bd", i)
    \/ ops > 2 /\ MixClick("bd")
    \/ ops > 2 /\ \E key \in PresetInputs : PresetClick(key)
    \/ ops > 2 /\ \E pv \in SynthInputs : SynthSlider(pv)
    \/ ops = 2 /\ EvaluateClick
    \/ ops = 1 /\ pendingEvals # {} /\ StopClick
    \/ ops = 1 /\ pendingEvals # {} /\ EvaluateClick
    \/ \E id \in pendingEvals : EvalResolve(id)
    \/ \E id \in pendingEvals : EvalReject(id)

SpecPlayback == InitPlayback /\ [][NextPlayback]_vars

(***************************************************************************)
(* An undo during the debounce of a text edit, in CyberStrudel: after a few *)
(* events, among them typing in the editor, undo is clicked while the       *)
(* debounced callback of the edit is still scheduled; the callback runs     *)
(* afterwards.                                                              *)
(***************************************************************************)
InitDebounce ==
    /\ ops = MaxDebounceOps
    /\ Holds(init("strudel", <<>>))

NextDebounce ==
    \/ ops > 1 /\ \E i \in StepInputs : StepClick("bd", i)
    \/ ops > 1 /\ MixClick("bd")
    \/ ops > 1 /\ \E pv \in SynthInputs : SynthSlider(pv)
    \/ ops > 1 /\ \E text \in TypedTexts : CodeInput(text)
    \/ ops > 1 /\ EditTimerFires
    \/ ops = 1 /\ editTimer /\ Undo
    \/ ops = 0 /\ EditTimerFires

SpecDebounce == InitDebounce /\ [][NextDebounce]_vars

(***************************************************************************)
(* Export of the library: patterns are saved and deleted while the text   *)
(* and a grid change, the library is exported, files are imported.  The    *)
(* page starts as in SpecTracks.                                           *)
(***************************************************************************)
InitExport ==
    /\ ops = MaxExportOps
    /\ \/ \E v \in {"strudel", "midi"} : Holds(init(v, <<>>))
       \/ \E text \in TypedTexts \ {""} :
             Holds([init("strudel", <<>>) EXCEPT !.code = text, !.editTimer = TRUE])

NextExport ==
    \/ \E name \in PatternNames : SavePatternClick(name)
    \/ \E name \in PatternNames : DeletePatternClick(name)
    \/ StepClick("bd", 0)
    \/ \E text \in TypedTexts : CodeInput(text)
    \/ \E name \in PatternNames : Midi_SavePatternClick(name)
    \/ \E name \in PatternNames : Midi_DeletePatternClick(name)
    \/ Midi_StepClick("note", 0)
    \/ \E text \in TypedTexts : Midi_CodeInput(text)
    \/ ExportClick

SpecExport == InitExport /\ [][NextExport]_vars

(***************************************************************************)
(* Evaluation and playback: a text is composed or typed, it is evaluated,   *)
(* the evaluator accepts or throws, playback is stopped, the mix changes.   *)
(***************************************************************************)
InitEvaluate ==
    /\ ops = MaxEvaluateOps
    /\ \/ \E v \in {"strudel", "midi"} : Holds(init(v, <<>>))
       \/ \E text \in TypedTexts \ {""} :
             Holds([init("strudel", <<>>) EXCEPT !.code = text, !.editTimer = TRUE])

NextEvaluate ==
    \/ StepClick("bd", 0)
    \/ MixClick("bd")
    \/ \E key \in PresetInputs : MixPresetClick(key)
    \/ EvaluateClick
    \/ PlayClick
    \/ StopClick
    \/ Undo
    \/ \E id \in pendingEvals : EvalResolve(id)
    \/ \E id \in pendingEvals : EvalReject(id)
    \/ Midi_StepClick("note", 0)
    \/ \E text \in TypedTexts : Midi_CodeInput(text)
    \/ \E ok \in BOOLEAN : Midi_GenerateAll(ok)
    \/ \E ok \in BOOLEAN : Midi_PlayClick(ok)
    \/ Midi_StopClick
    \/ Midi_ClearAll
    \/ Midi_Undo

SpecEvaluate == InitEvaluate /\ [][NextEvaluate]_vars

(***************************************************************************)
(* Compiling tracks in CyberStrudel: steps are toggled, step counts and     *)
(* sounds are changed, a track is compiled alone (generate) or into the mix *)
(* (mix), with the tempo prefix on or off.                                  *)
(***************************************************************************)
InitCompile ==
    /\ ops = MaxCompileOps
    /\ Holds(init("strudel", <<>>))

NextCompile ==
    \/ \E t \in {"bd", "hh"}, i \in {0, 2, 5} : StepClick(t, i)
    \/ \E t \in {"bd", "hh"}, count \in CountInputs : StepsChange(t, count)
    \/ \E t \in {"bd", "hh"}, sound \in SoundInputs : SoundChange(t, sound)
    \/ \E t \in {"bd", "hh"} : GenerateClick(t)
    \/ \E t \in {"bd", "hh"} : MixClick(t)
    \/ BpmEnableChange
    \/ Undo

SpecCompile == InitCompile /\ [][NextCompile]_vars

(***************************************************************************)
(* The claims.                                                              *)
(***************************************************************************)

\* a user event other than undo and redo: in SpecHistory each of them pushes
\* one snapshot, taken before it changes anything
PushingEvent == ops' = ops - 1 /\ ~(Undo \/ Redo \/ Midi_Undo \/ Midi_Redo)

\* C1: the history stack never holds more than maxHistory entries; a push
\* that would exceed the bound evicts the oldest entry, and the entries that
\* stay (those at or before the cursor, and the new one) keep their order.
C1_BoundedFifoHistory ==
    [][ /\ Len(history') <= maxHistory
        /\ PushingEvent =>
             LET kept == SubSeq(history, 1, historyIndex + 1)
                 evicted == Len(kept) + 1 - Len(history')
             IN  /\ evicted = IF Len(kept) = maxHistory THEN 1 ELSE 0
                 /\ \A i \in 1..(Len(history') - 1) : history'[i] = kept[i + evicted]
                 /\ history'[Len(history')] = Snapshot(Cur)
      ]_vars

\* the stack is full and the baseline entry of init() has been evicted
C1_Evicted ==
    /\ Len(history) = maxHistory
    /\ history[1] # Snapshot(init(variant, <<>>))

\* C2: whenever the history stack is not empty the cursor is an index of it;
\* the cursor is -1 only while the stack is empty.
C2_CursorInRange ==
    /\ Len(history) > 0 => (0 <= historyIndex /\ historyIndex < Len(history))
    /\ historyIndex = -1 => Len(history) = 0

\* the cursor strictly inside the stack: two pushes, then an undo
C2_CursorInside == 0 < historyIndex /\ historyIndex < Len(history) - 1

\* C3: from state A, push, mutate to B, push, mutate to C: two undos restore A,
\* the state before the first push, and a redo then restores B, the state
\* before the second push.  In SpecUndoRedo the two clicks push A and B as the
\* last two entries of the stack, which undo and redo leave in place.
C3_TwoUndosThenRedo ==
    /\ Len(Script) - ops = 4 => Editable(Cur) = history[Len(history) - 1]
    /\ Len(Script) - ops = 5 => Editable(Cur) = history[Len(history)]

\* a user event that changes the editable state and is no undo, redo or reload
MutatingEvent ==
    /\ ops' = ops - 1
    /\ ~(Undo \/ Redo \/ Midi_Undo \/ Midi_Redo \/ Reload)
    /\ Editable(Cur)' # Editable(Cur)

\* C4: every user operation that mutates the editable state calls
\* saveToHistory before the mutation takes effect: the entry it pushes, right
\* after the entries at or before the cursor, is the state before the operation.
C4_PushBeforeMutation ==
    [][ MutatingEvent =>
          /\ Len(history') >= historyIndex + 2
          /\ SubSeq(history', 1, historyIndex + 1) = SubSeq(history, 1, historyIndex + 1)
          /\ history'[historyIndex + 2] = Snapshot(Cur)
      ]_vars

\* C5: saveToHistory discards every entry after the cursor before it appends
\* the new snapshot and keeps every entry at or before the cursor (apart from
\* the eviction at the front); after it the cursor is at the last entry, so a
\* redo issued right after a push is rejected and changes nothing.
C5_PushPrunesRedoBranch ==
    [][ PushingEvent =>
          LET kept == SubSeq(history, 1, historyIndex + 1)
              evicted == IF Len(kept) = maxHistory THEN 1 ELSE 0
              after == IF Strudel THEN redo(Cur)' ELSE Midi_redo(Cur)'
          IN  /\ Len(history') = Len(kept) + 1 - evicted
              /\ SubSeq(history', 1, Len(kept) - evicted)
                   = SubSeq(kept, 1 + evicted, Len(kept))
              /\ historyIndex' = Len(history') - 1
              /\ after.notification = "Nothing to redo"
              /\ after.historyIndex = historyIndex'
              /\ Editable(after) = Editable(Cur)'
      ]_vars

\* a push after an undo: the undo left the cursor before the last entry, and
\* only a push brings it back to the end
C5_PushedAfterUndo ==
    /\ notification = "Undo successful"
    /\ historyIndex = Len(history) - 1

\* C6: undo is rejected exactly when the cursor is at 0 (or the stack is
\* empty) and redo exactly when the cursor is at the last index; otherwise undo
\* moves the cursor down by one, redo up by one, and the entry at the new
\* cursor is restored.
C6_UndoRedoGuards ==
    [][ /\ (Undo \/ Midi_Undo) =>
             IF historyIndex <= 0
             THEN /\ notification' = "Nothing to undo"
                  /\ historyIndex' = historyIndex /\ history' = history
                  /\ Editable(Cur)' = Editable(Cur)
             ELSE /\ notification' = "Undo successful"
                  /\ historyIndex' = historyIndex - 1 /\ history' = history
                  /\ Editable(Cur)' = history[historyIndex]
        /\ (Redo \/ Midi_Redo) =>
             IF historyIndex >= Len(history) - 1
             THEN /\ notification' = "Nothing to redo"
                  /\ historyIndex' = historyIndex /\ history' = history
                  /\ Editable(Cur)' = Editable(Cur)
             ELSE /\ notification' = "Redo successful"
                  /\ historyIndex' = historyIndex + 1 /\ history' = history
                  /\ Editable(Cur)' = history[historyIndex + 2]
      ]_vars

\* a redo that succeeded, after an undo that did
C6_RedoDone == notification = "Redo successful" /\ historyIndex > 0

\* the five parts of the record saveToLocalStorage wrote
PersistedEditable ==
    [sequencerState |-> stored[1].sequencerState,
     trackStates |-> stored[1].trackStates,
     code |-> stored[1].code,
     mixedPatterns |-> stored[1].mixedPatterns,
     synthParams |-> stored[1].synthParams]

C8_GridLengthIsStepCount ==
    \A n \in 1..Len(sequencerState) :
        Has(trackStates, sequencerState[n].k) =>
            Len(sequencerState[n].v) = Get(trackStates, sequencerState[n].k).steps

\* the step grid of track t is old resized to count steps
Resized(old, new, oldCount, count) ==
    /\ Len(new) = count
    /\ \A j \in 1..count :
          new[j] = IF j <= oldCount /\ j <= Len(old) THEN old[j] ELSE FALSE

\* C9: a change of a track's step count from old to new, both in {4, 8, 16},
\* gives a grid of length new with the first min(old, new) values of the
\* previous grid and the rest inactive, and sets the step count to new, in
\* both front ends.
C9_ResizeKeepsPrefix ==
    [][ \A t \in ClickTracks, count \in CountInputs :
          ((StepsChange(t, count) \/ Midi_StepsChange(t, count))
             /\ Has(sequencerState, t) /\ Has(trackStates, t)) =>
                /\ Has(sequencerState, t)' /\ Has(trackStates, t)'
                /\ Resized(Get(sequencerState, t), Get(sequencerState, t)',
                           Get(trackStates, t).steps, count)
                /\ Get(trackStates, t)'.steps = count
      ]_vars

\* the grids after the flip of step index of track t, and of nothing else
Flipped(grids, t, index) ==
    [n \in 1..Len(grids) |->
        IF grids[n].k = t
        THEN [k |-> t,
              v |-> [j \in 1..Len(grids[n].v) |->
                        IF j = index + 1 THEN ~grids[n].v[j] ELSE grids[n].v[j]]]
        ELSE grids[n]]

\* C10: toggleStep(id, index) with index < stepCount flips that step and no
\* other step of any track; with index >= stepCount it is rejected and leaves
\* the grid unchanged.
C10_ToggleStepInRange ==
    [][ \A t \in ClickTracks, index \in StepInputs :
          ((StepClick(t, index) \/ Midi_StepClick(t, index))
             /\ Has(sequencerState, t) /\ Has(trackStates, t)) =>
                IF index < Get(trackStates, t).steps
                THEN sequencerState' = Flipped(sequencerState, t, index)
                ELSE sequencerState' = sequencerState
      ]_vars

\* the last track of the track order and its config are gone, nothing else
RemovedLast(grids, cfgs, grids2, cfgs2) ==
    /\ grids2 = SubSeq(grids, 1, Len(grids) - 1)
    /\ ~Has(cfgs2, grids[Len(grids)].k)
    /\ \A n \in 1..Len(cfgs) :
          cfgs[n].k # grids[Len(grids)].k =>
             Has(cfgs2, cfgs[n].k) /\ Get(cfgs2, cfgs[n].k) = cfgs[n].v

\* C11: removeTrack is rejected exactly when one track is left; with more
\* than one track it removes one track and its config; the number of tracks is
\* at least 1 in every reachable state.
C11_RemoveTrackKeepsOne ==
    [][ /\ Len(sequencerState') >= 1
        /\ (RemoveTrack \/ Midi_RemoveTrack) =>
             IF Len(sequencerState) = 1
             THEN sequencerState' = sequencerState /\ trackStates' = trackStates
             ELSE RemovedLast(sequencerState, trackStates,
                              sequencerState', trackStates')
      ]_vars

\* the step changed nothing of the engine state: the editable state, the
\* saved patterns, the history stack and its cursor
EngineUnchanged ==
    /\ Editable(Cur)' = Editable(Cur)
    /\ savedPatterns' = savedPatterns
    /\ history' = history
    /\ historyIndex' = historyIndex

\* C12: an operation that is rejected (removeTrack, savePattern, loadPattern,
\* deletePattern, mixTrack, undo, redo answering with their error message)
\* leaves the whole engine state unchanged, the history stack and its cursor
\* included.
C12_RejectionChangesNothing ==
    [][ /\ ((RemoveTrack \/ Midi_RemoveTrack)
              /\ notification' \in {"Cannot remove original tracks",
                                    "Cannot remove the last track"})
             => EngineUnchanged
        /\ \A t \in ClickTracks :
             (MixClick(t)
                /\ notification' \in {toUpperCase(t) \o " is muted or not soloed",
                                      "No active steps in " \o toUpperCase(t)})
               => EngineUnchanged
        /\ \A name \in PatternNames :
             ((SavePatternClick(name) \/ Midi_SavePatternClick(name))
                /\ notification' \in {"Pattern name is required", "No code to save",
                                      "Please enter a pattern name",
                                      "Pattern \"" \o name \o "\" already exists"})
               => EngineUnchanged
        /\ \A name \in PatternNames :
             ((LoadPatternClick(name) \/ DeletePatternClick(name)
                 \/ Midi_DeletePatternClick(name)
                 \/ \E ok \in BOOLEAN : Midi_LoadPatternClick(name, ok))
                /\ notification' = "Pattern \"" \o name \o "\" not found")
               => EngineUnchanged
        /\ ((Undo \/ Midi_Undo) /\ notification' = "Nothing to undo")
             => EngineUnchanged
        /\ ((Redo \/ Midi_Redo) /\ notification' = "Nothing to redo")
             => EngineUnchanged
      ]_vars

\* C13: addTrack adds exactly one track, under an id not in use, last in the
\* track order, with 8 inactive steps and the default config (not muted, not
\* soloed, 8 steps, the default sound), and leaves the grid and config of
\* every existing track unchanged; checked after any sequence of addTrack,
\* removeTrack, undo, redo and loadPattern.
C13_AddTrackAppendsDefault ==
    [][ (AddTrack \/ Midi_AddTrack) =>
          LET n == Len(sequencerState)
              id == sequencerState'[n + 1].k
          IN  /\ Len(sequencerState') = n + 1
              /\ SubSeq(sequencerState', 1, n) = sequencerState
              /\ ~Has(sequencerState, id) /\ ~Has(trackStates, id)
              /\ sequencerState'[n + 1].v = Blank(8)
              /\ Len(trackStates') = Len(trackStates) + 1
              /\ \A m \in 1..Len(trackStates) :
                    /\ Has(trackStates', trackStates[m].k)
                    /\ Get(trackStates', trackStates[m].k) = trackStates[m].v
              /\ Has(trackStates', id)
              /\ Get(trackStates', id)
                   = defaultCfg(IF Strudel THEN "bd" ELSE "C4")
      ]_vars

\* a track was added under an id that an earlier track, removed since, had
C13_AddedAgain ==
    /\ notification \in {"New track TRACK4 added", "Track note2 added"}
    /\ \E i \in 1..Len(history) :
          \/ Has(history[i].sequencerState, "track4")
          \/ Has(history[i].sequencerState, "note2")

\* the program updateMixedCode composes from the state s
Composed(s) ==
    IF s.variant = "strudel" THEN updateMixedCode(s).code
    ELSE Midi_updateMixedCode(s).code

\* s with every muted track, and every track that is not soloed while another
\* is, taken out of the mix selection
WithoutInaudible(s) ==
    [s EXCEPT !.mixedPatterns.tracks =
       [i \in 1..Len(@) |->
           [k |-> @[i].k,
            v |-> @[i].v /\ ~(Has(s.trackStates, @[i].k) /\ Inaudible(s, @[i].k))]]]

C15_SoloAndMuteAreLocal ==
    [][ \A t \in ClickTracks :
          /\ ((SoloClick(t) \/ Midi_SoloClick(t)) /\ Has(trackStates, t)) =>
                trackStates' = Put(trackStates, t,
                                   [Get(trackStates, t) EXCEPT !.solo = ~@])
          /\ ((MuteClick(t) \/ Midi_MuteClick(t)) /\ Has(trackStates, t)) =>
                trackStates' = Put(trackStates, t,
                                   [Get(trackStates, t) EXCEPT !.muted = ~@])
      ]_vars

\* the fragments that contribute to the program composed from s, in the order
\* updateMixedCode visits them (CyberMidi: the line of every selected track,
\* then the text of every selected saved pattern)
Fragments(s) ==
    IF s.variant = "strudel" THEN MixFragments(s)
    ELSE LET tracks == SelectSeq(Keys(s.mixedPatterns.tracks),
                                 LAMBDA t : Get(s.mixedPatterns.tracks, t)
                                            /\ Has(s.sequencerState, t)
                                            /\ Has(s.trackStates, t))
             savedOn == SelectSeq(Keys(s.mixedPatterns.saved),
                                  LAMBDA name : Get(s.mixedPatterns.saved, name)
                                                /\ Has(s.savedPatterns, name)
                                                /\ Get(s.savedPatterns, name).code # "")
         IN  [i \in 1..Len(tracks) |-> Midi_line(s, tracks[i])]
             \o [i \in 1..Len(savedOn) |-> Get(s.savedPatterns, savedOn[i]).code \o "\n"]

\* the program the fragments make: none, the one fragment, or one stack(...)
Stacked(fragments) ==
    IF Len(fragments) = 0 THEN ""
    ELSE IF Len(fragments) = 1 THEN fragments[1]
    ELSE "stack(" \o JoinComma(fragments) \o ")"

\* every track selected in the mix has a grid and a config
MixSelectionBound(s) ==
    \A i \in 1..Len(s.mixedPatterns.tracks) :
        s.mixedPatterns.tracks[i].v =>
            /\ Has(s.sequencerState, s.mixedPatterns.tracks[i].k)
            /\ Has(s.trackStates, s.mixedPatterns.tracks[i].k)

\* C16: the program updateMixedCode composes is empty when no source
\* contributes a fragment, the fragment itself when one contributes, and one
\* stack(...) of the contributing fragments, each once, when two or more do
\* (after the tempo statement, when there is one).
C16_EmptyOneOrStack ==
    MixSelectionBound(Cur) =>
        Composed(Cur) \in {Stacked(Fragments(Cur)),
                           CpsPrefix(Cur) \o Stacked(Fragments(Cur))}

\* the entries of the map m in the order of the keys of order, then the rest
Reordered(m, order) ==
    LET first == SelectSeq(order, LAMBDA key : Has(m, key))
        rest == SelectSeq(m, LAMBDA e : \A i \in 1..Len(order) : order[i] # e.k)
    IN  [i \in 1..Len(first) |-> [k |-> first[i], v |-> Get(m, first[i])]] \o rest

\* s with the mix selection listed in the order of the tracks, of the preset
\* catalogue and of the pattern library, whatever order the sources were
\* enabled in
InStableOrder(s) ==
    IF s.variant = "strudel"
    THEN [s EXCEPT !.mixedPatterns.tracks = Reordered(@, Keys(s.sequencerState)),
                   !.mixedPatterns.presets = Reordered(@, presetKeys),
                   !.mixedPatterns.saved = Reordered(@, Keys(s.savedPatterns))]
    ELSE [s EXCEPT !.mixedPatterns.tracks = Reordered(@, Keys(s.sequencerState)),
                   !.mixedPatterns.saved = Reordered(@, Keys(s.savedPatterns))]

\* C17: in the composed program the fragments are the track fragments in
\* track order, then the preset fragments in preset-key order, then the
\* saved-pattern fragments in name order: the program does not depend on the
\* order in which the sources were enabled.
C17_FragmentOrderIsStable == Composed(Cur) = Composed(InStableOrder(Cur))

\* the program composed from s with the tempo switched off
Untimed(s) == Composed([s EXCEPT !.synthParams.bpmEnabled = FALSE])

\* C18: the composed program begins with the tempo statement made from bpm
\* exactly when bpmEnabled is true and at least one fragment exists; with no
\* fragment the program is empty, also when bpmEnabled is true.
C18_TempoIffEnabledAndFragments ==
    MixSelectionBound(Cur) =>
        /\ Composed(Cur) =
              IF synthParams.bpmEnabled /\ Len(Fragments(Cur)) > 0
              THEN CpsPrefix(Cur) \o Untimed(Cur)
              ELSE Untimed(Cur)
        /\ Len(Fragments(Cur)) = 0 => Composed(Cur) = ""

\* track t of s has no active step (CyberStrudel reads the first stepCount
\* cells of the grid, CyberMidi the whole grid)
Silent(s, t) ==
    /\ Has(s.sequencerState, t) /\ Has(s.trackStates, t)
    /\ ~HasActive(IF s.variant = "strudel"
                  THEN Slice(Get(s.sequencerState, t), Get(s.trackStates, t).steps)
                  ELSE Get(s.sequencerState, t))

\* s with the silent tracks taken out of the mix selection
WithoutSilent(s) ==
    [s EXCEPT !.mixedPatterns.tracks =
       [i \in 1..Len(@) |-> [k |-> @[i].k, v |-> @[i].v /\ ~Silent(s, @[i].k)]]]

\* s with the grids of the silent tracks taken away (their configs stay, so
\* that mute and solo count as before)
DropSilent(s) ==
    [s EXCEPT !.sequencerState = SelectSeq(@, LAMBDA e : ~Silent(s, e.k))]

\* C19: a track without an active step contributes no fragment to a composed
\* or generated program, selected in the mix or not: updateMixedCode composes
\* the program it composes without that track, generateTrackCode generates
\* nothing from it, and generateSequencerCode / generateAllCode generate what
\* they generate from the other tracks alone.
C19_SilentTracksContributeNothing ==
    /\ [](Composed(Cur) = Composed(WithoutSilent(Cur)))
    /\ [][ /\ \A t \in ClickTracks :
                ((GenerateClick(t) \/ \E ok \in BOOLEAN : Midi_GenerateClick(t, ok))
                   /\ Silent(Cur, t)) => code' = code
           /\ SequencerGenerate => code' = generateSequencerCode(DropSilent(Cur)).code
           /\ \A ok \in BOOLEAN :
                Midi_GenerateAll(ok) => code' = Midi_generateAllCode(DropSilent(Cur), ok).code
         ]_vars

\* a click or change that is one of the track and mix mutations
TrackOrMixEvent ==
    \/ \E t \in ClickTracks :
          \/ \E i \in StepInputs : StepClick(t, i) \/ Midi_StepClick(t, i)
          \/ \E count \in CountInputs : StepsChange(t, count) \/ Midi_StepsChange(t, count)
          \/ \E sound \in SoundInputs : SoundChange(t, sound) \/ Midi_SoundChange(t, sound)
          \/ \E draw \in DrawInputs : RandomClick(t, draw) \/ Midi_RandomClick(t, draw)
          \/ MuteClick(t) \/ Midi_MuteClick(t)
          \/ SoloClick(t) \/ Midi_SoloClick(t)
          \/ MixClick(t) \/ Midi_MixClick(t)
    \/ RemoveTrack \/ Midi_RemoveTrack
    \/ \E key \in PresetInputs : MixPresetClick(key)
    \/ \E name \in PatternNames :
          \/ MixSavedClick(name) \/ Midi_MixSavedClick(name)
          \/ DeletePatternClick(name) \/ Midi_DeletePatternClick(name)

\* some source is enabled in the mix selection of s
SomeSourceEnabled(s) ==
    \/ SomeTrue(s.mixedPatterns.tracks)
    \/ SomeTrue(s.mixedPatterns.saved)
    \/ s.variant = "strudel" /\ SomeTrue(s.mixedPatterns.presets)

\* C20: after a track or mix mutation that took effect, with at least one
\* source enabled in the mix selection, the program text is the composition
\* of the current tracks, configs, selection and synth parameters.
C20_TextFollowsMutation ==
    [][ ( /\ TrackOrMixEvent
          /\ <<sequencerState, trackStates, mixedPatterns, savedPatterns>>'
               # <<sequencerState, trackStates, mixedPatterns, savedPatterns>>
          /\ SomeSourceEnabled(Cur)' )
        => code' = Composed(Cur)'
      ]_vars

\* the program composed from s with the saved pattern name as the only
\* enabled source and the tempo switched off: the fragment of that pattern
SavedFragment(s, name) ==
    Composed([s EXCEPT
                !.mixedPatterns =
                    IF s.variant = "strudel"
                    THEN onlyMix(<<>>, <<>>, <<[k |-> name, v |-> TRUE]>>)
                    ELSE [tracks |-> <<>>, saved |-> <<[k |-> name, v |-> TRUE]>>],
                !.synthParams.bpmEnabled = FALSE])

\* the text stored under name, as one line of the program in CyberMidi
StoredText(s, name) ==
    LET text == Get(s.savedPatterns, name).code
    IN  IF s.variant = "strudel" \/ text = "" THEN text ELSE text \o "\n"

\* C21: the fragment a saved pattern contributes to the composed program is
\* the text stored with the pattern when it was saved: it is the stored text
\* in every state, and no event other than a save under that name changes the
\* stored text, whatever happens to the grids, configs and synth parameters.
C21_SavedFragmentIsStoredText ==
    /\ [](\A name \in PatternNames :
            Has(savedPatterns, name) =>
               SavedFragment(Cur, name) = StoredText(Cur, name))
    /\ [][ \A name \in PatternNames :
             (/\ Has(savedPatterns, name) /\ Has(savedPatterns', name)
              /\ ~(SavePatternClick(name) \/ Midi_SavePatternClick(name)))
               => Get(savedPatterns', name).code = Get(savedPatterns, name).code
         ]_vars

\* a saved pattern is enabled in the mix while the grid of the first track is
\* no longer the one in the pattern's snapshot
C21_MixedAfterGridChange ==
    \E name \in PatternNames :
        /\ Truthy(mixedPatterns.saved, name) /\ Has(savedPatterns, name)
        /\ Get(savedPatterns, name).code # ""
        /\ Get(savedPatterns, name).sequencerState # sequencerState

\* C22: in every reachable state the keys of mixedPatterns.tracks are ids of
\* existing tracks, the keys of mixedPatterns.presets are keys of the preset
\* catalogue, and the keys of mixedPatterns.saved are names of saved patterns.
C22_MixSelectionKeysExist ==
    /\ KeySet(mixedPatterns.tracks) \subseteq KeySet(sequencerState)
    /\ Strudel => KeySet(mixedPatterns.presets) \subseteq SeqToSet(presetKeys)
    /\ KeySet(mixedPatterns.saved) \subseteq KeySet(savedPatterns)

\* C23: savePattern under a name the library already has is refused with the
\* duplicate-name error and leaves the library as it is: the record under that
\* name is still the one of the first save.
C23_DuplicateNameRefused ==
    [][ \A name \in PatternNames :
          ((SavePatternClick(name) \/ Midi_SavePatternClick(name))
             /\ Has(savedPatterns, name)) =>
                /\ savedPatterns' = savedPatterns
                /\ notification' = "Pattern \"" \o name \o "\" already exists"
      ]_vars

\* deletePattern(name) applied to the state s
Deleted(s, name) ==
    IF s.variant = "strudel" THEN deletePattern(s, name) ELSE Midi_deletePattern(s, name)

\* C24: deletePattern(name) for a name the library has removes that pattern
\* and its entry of mixedPatterns.saved and leaves every other pattern and
\* selection entry as it is; for a name the library does not have it answers
\* not found and changes neither the library nor the mix selection.
C24_DeleteRemovesPatternAndSelection ==
    /\ [](\A name \in PatternNames :
            ~Has(savedPatterns, name) =>
               /\ Deleted(Cur, name).savedPatterns = savedPatterns
               /\ Deleted(Cur, name).mixedPatterns = mixedPatterns
               /\ Deleted(Cur, name).notification
                    = "Pattern \"" \o name \o "\" not found")
    /\ [][ \A name \in PatternNames :
             (DeletePatternClick(name) \/ Midi_DeletePatternClick(name)) =>
                /\ savedPatterns' = Del(savedPatterns, name)
                /\ ~Has(savedPatterns', name)
                /\ mixedPatterns' = [mixedPatterns EXCEPT !.saved = Del(@, name)]
                /\ ~Has(mixedPatterns'.saved, name)
         ]_vars

\* a pattern that was enabled in the mix has been deleted while another
\* pattern is saved and enabled
C24_DeletedBesideAnother ==
    \E name \in PatternNames, other \in PatternNames :
        /\ notification = "Pattern \"" \o name \o "\" deleted"
        /\ other # name
        /\ Has(savedPatterns, other) /\ Truthy(mixedPatterns.saved, other)

\* C25: when the read of a file that holds a list of (name, record) pairs
\* ends in 'Patterns imported', the library holds the names of the list, in
\* the order of the list, each with the record of the list, and nothing else,
\* and mixedPatterns.saved is empty, whatever was saved or selected before.
C25_ImportReplacesLibrary ==
    [][\A payload \in pendingReads :
          (/\ ImportLoaded(payload)
           /\ payload.json = "pairs"
           /\ notification' = "Patterns imported")
          => /\ Keys(savedPatterns') =
                   [i \in 1..Len(payload.items) |-> payload.items[i].name]
             /\ \A i \in 1..Len(payload.items) :
                   Get(savedPatterns', payload.items[i].name) = payload.items[i].record
             /\ mixedPatterns'.saved = <<>>]_vars

\* a list of q and r has been imported over a library that held p, which was
\* selected for the mix when the file was chosen
C25_ImportedOverSelected ==
    /\ notification = "Patterns imported"
    /\ KeySet(savedPatterns) = {"q", "r"}
    /\ mixedPatterns.saved = <<>>
    /\ \E i \in 1..Len(history) : Truthy(history[i].mixedPatterns.saved, "p")

\* C26: when the read of a file ends whose content is not a list of
\* (name, record) pairs (no JSON, null, a number, a list of numbers), the page
\* reports 'Invalid pattern file' and the library and the mix selection stay
\* as they were.
C26_MalformedImportRefused ==
    [][\A payload \in pendingReads :
          (ImportLoaded(payload) /\ payload.json # "pairs")
          => /\ notification' = "Invalid pattern file"
             /\ savedPatterns' = savedPatterns
             /\ mixedPatterns' = mixedPatterns]_vars

\* C27: when the page is loaded over a persisted record that lacks any subset
\* of its fields, every field the record has is loaded and every field it
\* lacks has the value of a fresh page: grids of 8 empty steps and the
\* default sounds, bpm 120 with bpmEnabled, empty selections, an empty
\* library, an empty editor.
C27_MissingFieldsTakeDefaults ==
    [][\A missing \in SUBSET StoredFields :
          ReloadLacking(missing) =>
             LET fresh == Constructed(variant, <<>>)
                 Loaded(field, value) ==
                     value = IF field \in missing \/ Lacks(stored[1], field)
                             THEN fresh[field]
                             ELSE stored[1][field]
             IN  /\ Loaded("sequencerState", sequencerState')
                 /\ Loaded("trackStates", trackStates')
                 /\ Loaded("mixedPatterns", mixedPatterns')
                 /\ Loaded("savedPatterns", savedPatterns')
                 /\ Loaded("synthParams", synthParams')
                 /\ Loaded("code", code')]_vars

\* the six parts of the live state that saveToLocalStorage writes
Live ==
    [sequencerState |-> sequencerState, trackStates |-> trackStates,
     mixedPatterns |-> mixedPatterns, savedPatterns |-> savedPatterns,
     synthParams |-> synthParams, code |-> code]

\* C28: after every step that changed the live state (grids, track configs,
\* mix selection, saved patterns, synth params, program text) and left no
\* debounce timer pending, the persisted record equals the live state.
C28_PersistedIsLive ==
    [][(Live' # Live /\ ~editTimer') => stored' = <<Live'>>]_vars

\* C29: an input event of the editor pushes and writes nothing by itself and
\* leaves one timer pending, whether or not one was pending (a burst of
\* events keeps a single timer); when the timer fires, one entry, the state
\* with the text of the last event, is pushed after the cursor and one record
\* is written, and no timer is left.
C29_EditsAreDebounced ==
    [][/\ (\E text \in TypedTexts : CodeInput(text) \/ Midi_CodeInput(text))
          => /\ editTimer'
             /\ UNCHANGED <<history, historyIndex, stored>>
       /\ EditTimerFires
          => /\ ~editTimer'
             /\ Len(history') = historyIndex + 2
             /\ historyIndex' = historyIndex + 1
             /\ history'[Len(history')] = Editable(Cur)
             /\ stored' = <<Live>>]_vars

\* C30: a request made while an earlier evaluateCode call awaits the
\* evaluator supersedes it.  In SpecPlayback the last event is that request
\* (nextEval = 2 when it was a stop), so when an awaited call resolves after
\* it: after a stop, isPlaying stays false and currentPattern stays null;
\* and a call that resolves after a later call has resolved leaves
\* currentPattern the handle of the later call.
C30_LaterRequestSupersedes ==
    [][\A id \in pendingEvals :
          (ops = 0 /\ EvalResolve(id))
          => /\ nextEval = 2 => (~isPlaying' /\ currentPattern' = 0)
             /\ currentPattern > id => currentPattern' = currentPattern]_vars

\* a step of an evaluateCode call whose evaluate(code) throws: the call up
\* to the await and its catch branch in CyberStrudel, the whole call in
\* CyberMidi
FailedEvaluation ==
    \/ EvaluateClick
    \/ ~isPlaying /\ PlayClick
    \/ \E id \in pendingEvals : EvalReject(id)
    \/ Midi_PlayClick(FALSE)

\* a further evaluateCode call hands the text to the evaluator
Reevaluable(s) ==
    IF s.variant = "strudel" THEN evaluateCode(s).nextEval = s.nextEval + 1
    ELSE Midi_evaluateCode(s, TRUE).notification = "Code evaluated successfully"

\* C31: a step of an evaluateCode call whose evaluator throws leaves the
\* grids, the track configs, the mix selection, the synth params, the text,
\* the saved patterns and the history stack as they were, and the text can be
\* evaluated again: a further evaluateCode call reaches the evaluator exactly
\* when the text is not blank, as before the failure.
C31_FailedEvaluationKeepsState ==
    [][FailedEvaluation =>
          /\ EngineUnchanged
          /\ Reevaluable(Cur)' = ~IsBlank(code)]_vars

\* the evaluator has thrown and the text it was given is still in the editor
C31_EvaluatorThrew ==
    /\ notification \in {"Error", "Evaluation failed"}
    /\ ~IsBlank(code)
    /\ pendingEvals = {}
    /\ Len(history) > 1

\* an event whose handler ends in updateMixedCode whenever it changes the mix
RecomposeEvent ==
    \/ \E key \in PresetInputs : MixPresetClick(key)
    \/ \E name \in PatternNames : MixSavedClick(name) \/ Midi_MixSavedClick(name)
    \/ \E t \in ClickTracks :
          (MixClick(t) \/ Midi_MixClick(t)) /\ mixedPatterns' # mixedPatterns
    \/ SequencerClear
    \/ Midi_ClearAll

\* C32: when an event recomposes the text and no fragment is left, the text
\* is empty after the event and playback is stopped: with no evaluate call
\* left awaiting, isPlaying is false.
C32_NoFragmentsStopsPlayback ==
    [][(RecomposeEvent /\ Fragments(Cur)' = <<>>)
          => /\ code' = ""
             /\ pendingEvals' = {} => ~isPlaying']_vars

\* the mask of a track of n steps: n markers, the k-th 'x' exactly when step
\* k of the grid is active, separated by single spaces
RECURSIVE MaskUpTo(_, _)
MaskUpTo(grid, n) ==
    LET marker == IF n <= Len(grid) /\ grid[n] THEN "x" ELSE "~"
    IN  IF n = 0 THEN "" ELSE IF n = 1 THEN marker
        ELSE MaskUpTo(grid, n - 1) \o " " \o marker

\* the compiled form of track t in state s: the fixed pitch with a tonal
\* sound, the sample repeated once per step otherwise, driven by the mask
CompiledTrack(s, t) ==
    LET cfg == Get(s.trackStates, t)
        mask == MaskUpTo(Get(s.sequencerState, t), cfg.steps)
    IN  IF cfg.sound \in {"sawtooth", "sine", "triangle"}
        THEN "note('c3').sound('" \o cfg.sound \o "').struct(\"" \o mask \o "\").gain(0.8)"
        ELSE "s(\"" \o cfg.sound \o "*" \o ToString(cfg.steps) \o "\").struct(\""
             \o mask \o "\").gain(0.8)"

\* track t is heard and has an active step among its first stepCount steps
Compilable(s, t) ==
    LET cfg == Get(s.trackStates, t)
        grid == Get(s.sequencerState, t)
    IN  /\ ~cfg.muted
        /\ cfg.solo \/ \A n \in 1..Len(s.trackStates) : ~s.trackStates[n].v.solo
        /\ \E i \in 1..cfg.steps : i <= Len(grid) /\ grid[i]

\* C33: when a track is compiled, alone by generate or as the only source of
\* the mix, the text is the compiled form of the track (after the tempo line
\* when the tempo is enabled): a mask of exactly stepCount markers, 'x' at the
\* active and '~' at the inactive steps, under the fixed pitch for a tonal
\* sound and under the sample repeated stepCount times for any other sound.
C33_TrackCompilesToMask ==
    [][\A t \in {"bd", "hh"} :
          (/\ GenerateClick(t) \/ MixClick(t)
           /\ Compilable(Cur, t)
           /\ mixedPatterns' = onlyMix(<<>>, <<[k |-> t, v |-> TRUE]>>, <<>>))
          => code' = (IF synthParams.bpmEnabled
                      THEN "setCps(" \o ToString(synthParams.bpm) \o "/60/4)\n"
                      ELSE "") \o CompiledTrack(Cur, t)]_vars

\* steps 1 and 3 of the eight steps of bd are active and bd was compiled
C33_CompiledExample ==
    /\ code = "setCps(120/60/4)\ns(\"bd*8\").struct(\"x ~ x ~ ~ ~ ~ ~\").gain(0.8)"
    /\ Truthy(mixedPatterns.tracks, "bd")

\* C34: in a run of step clicks followed by undo, every click puts the state
\* S it was performed in on top of the stack, and the undo that follows the
\* last click restores the editable state to exactly that S, however many
\* clicks came before.
C34_UndoRestoresPreActionState ==
    [][/\ (\E i \in StepInputs : StepClick("bd", i) \/ Midi_StepClick("note", i))
          => history'[Len(history')] = Editable(Cur)
       /\ (ops = 3 /\ (Undo \/ Midi_Undo))
          => Editable(Cur)' = history[Len(history)]]_vars

\* undo() followed at once by redo(), in the class of the page
UndoThenRedo(s) ==
    IF s.variant = "strudel" THEN redo(undo(s)) ELSE Midi_redo(Midi_undo(s))

\* C35: in every reachable state in which undo succeeds, undo followed at
\* once by redo leaves the grids, the track configs, the mix selection, the
\* synth params and the text as they were before the undo.
C35_UndoThenRedoIsIdentity ==
    historyIndex > 0 => Editable(UndoThenRedo(Cur)) = Editable(Cur)

(***************************************************************************)
(* C36: undo and redo move the cursor and replace the live editable state  *)
(* and nothing else of the stack or the library: on every undo or redo     *)
(* step, of either class, the history stack is the same sequence of        *)
(* entries after the step as before it, the cursor moves by at most one    *)
(* and the saved-pattern library is unchanged; and on every step whatever, *)
(* the entries at or below the cursor are the same entries afterwards      *)
(* (a later change of the live state is never seen in an entry pushed      *)
(* before it).                                                             *)
(***************************************************************************)
UndoOrRedo == Undo \/ Redo \/ Midi_Undo \/ Midi_Redo

C36_UndoRedoFrame ==
    [][/\ UndoOrRedo =>
            /\ history' = history
            /\ savedPatterns' = savedPatterns
            /\ historyIndex' \in {historyIndex - 1, historyIndex, historyIndex + 1}
       /\ Len(history) < maxHistory =>
            \A i \in 1..(historyIndex + 1) :
                i <= Len(history') /\ history'[i] = history[i]]_vars

\* an undo has succeeded with a pattern in the library and a redo branch on
\* the stack whose newest entry differs from the state restored
C36_UndoneWithLibrary ==
    /\ notification = "Undo successful"
    /\ savedPatterns # <<>>
    /\ historyIndex < Len(history) - 1
    /\ history[Len(history)] # Editable(Cur)
    /\ history[historyIndex + 1] = Editable(Cur)

(***************************************************************************)
(* C37: an undo clicked while the debounced callback of a text edit is     *)
(* scheduled creates a redo branch that the callback leaves alone: when    *)
(* the callback runs after that undo, every entry that was above the       *)
(* cursor (redoable) before it ran is still in the stack, at its place,    *)
(* after it has run.                                                       *)
(***************************************************************************)
C37_DelayedPushKeepsRedoBranch ==
    [][(ops = 0 /\ EditTimerFires) =>
           \A i \in (historyIndex + 2)..Len(history) :
               i <= Len(history') /\ history'[i] = history[i]]_vars

(***************************************************************************)
(* C38: a record written by saveToLocalStorage and loaded by a new         *)
(* instance gives back what was persisted: on every reload of the page     *)
(* over a complete persisted record, in both classes, the grids, the track *)
(* configs, the mix selection, the synth params, the program text and the  *)
(* saved-pattern library (names, records, order) of the new instance are   *)
(* those of the record.                                                    *)
(***************************************************************************)
C38_LoadRestoresPersisted ==
    [][(ReloadLacking({}) /\ DOMAIN stored[1] = StoredFields) => Live' = stored[1]]_vars

(***************************************************************************)
(* C39: the file exportPatterns writes, when imported, gives back the      *)
(* library it was written from: in every state reached by saving and       *)
(* deleting patterns, in both classes, importing the exported file, into   *)
(* the same page after the export or into a freshly loaded page, leaves a  *)
(* library with the same names in the same order, each with the same code  *)
(* and the same snapshots.                                                 *)
(***************************************************************************)
ExportThenImport(s) == importPatterns_onload(exportPatterns(s), ExportedFile(s))

C39_ExportImportRoundTrip ==
    /\ ExportThenImport(Cur).savedPatterns = savedPatterns
    /\ importPatterns_onload(init(variant, <<>>), ExportedFile(Cur)).savedPatterns
           = savedPatterns

\* the library was exported with two patterns in it, the newer one first by
\* name, with different texts, and the import of the file reports success
C39_ExportedTwoPatterns ==
    /\ notification = "Patterns exported"
    /\ Keys(savedPatterns) = <<"q", "p">>
    /\ savedPatterns[1].v.code # savedPatterns[2].v.code
    /\ ExportThenImport(Cur).notification = "Patterns imported"

(***************************************************************************)
(* C40: what the generate buttons write is what the mix would compose:     *)
(* whenever generateTrackCode or generateSequencerCode succeeds, the text  *)
(* it leaves in the editor is the text updateMixedCode composes from the   *)
(* mix selection, the tracks and the synth params it leaves behind (the    *)
(* one track enabled, respectively every track enabled), also when a       *)
(* single track is heard and has active steps.                             *)
(***************************************************************************)
C40_GeneratedIsComposed ==
    [][/\ \A t \in ClickTracks :
             (GenerateClick(t) /\ Has(trackStates, t) /\ Compilable(Cur, t))
                 => code' = Composed(Cur)'
       /\ (SequencerGenerate /\ notification' = "Sequencer code generated")
             => code' = Composed(Cur)']_vars

====
